---------------------------- MODULE Spec2Model ----------------------------
(***************************************************************************)
(* A model of cgroup_mem: the stat-definition parsers, the value           *)
(* extractors, the cgroup tree loader, the process lister and the tree /   *)
(* table view state that is reconciled across reloads.                     *)
(*                                                                         *)
(* Strings the code inspects character by character (stat definitions,     *)
(* lines of pseudo-files) are sequences of one-character strings.  Rust    *)
(* indices are 0-based and are kept 0-based wherever the code stores them  *)
(* (tree identifiers, table rows); a sequence is indexed with index + 1.   *)
(***************************************************************************)
EXTENDS Integers, Sequences, FiniteSets, TLC

(***************************************************************************)
(* Bounds of the model.                                                    *)
(***************************************************************************)
\* longest stat definition drawn as an input, in '/'-separated segments
MaxSegs == 5
\* most lines of a pseudo-file read by an extractor
MaxLines == 2
\* most whitespace-separated columns of such a line
MaxCols == 2
\* largest statistic value a cgroup directory reports
MaxStat == 3

(***************************************************************************)
(* std helpers: str::split('/'), str::parse::<usize>, str::starts_with     *)
(***************************************************************************)
RECURSIVE SplitAcc(_, _, _)
SplitAcc(s, cur, acc) ==
  IF s = <<>> THEN Append(acc, cur)
  ELSE IF Head(s) = "/" THEN SplitAcc(Tail(s), <<>>, Append(acc, cur))
  ELSE SplitAcc(Tail(s), Append(cur, Head(s)), acc)

\* def.split('/').collect(): the empty string yields one empty segment
Split(s) == SplitAcc(s, <<>>, <<>>)

RECURSIVE Join(_)
Join(segs) ==
  IF Len(segs) = 0 THEN <<>>
  ELSE IF Len(segs) = 1 THEN segs[1]
  ELSE segs[1] \o <<"/">> \o Join(Tail(segs))

Digits == {"0", "1", "2", "3", "4", "5", "6", "7", "8", "9"}

DigitVal(c) ==
  CASE c = "0" -> 0 [] c = "1" -> 1 [] c = "2" -> 2 [] c = "3" -> 3
    [] c = "4" -> 4 [] c = "5" -> 5 [] c = "6" -> 6 [] c = "7" -> 7
    [] c = "8" -> 8 [] c = "9" -> 9

RECURSIVE DigitsVal(_, _)
DigitsVal(s, acc) ==
  IF s = <<>> THEN acc ELSE DigitsVal(Tail(s), acc * 10 + DigitVal(Head(s)))

\* str::parse::<usize>: Ok for an optional leading '+' followed by one or
\* more decimal digits (inputs stay far below 2^64), and then its value
UsizeBody(s) == IF s # <<>> /\ Head(s) = "+" THEN Tail(s) ELSE s

IsUsize(s) ==
  /\ UsizeBody(s) # <<>>
  /\ \A i \in 1..Len(UsizeBody(s)) : UsizeBody(s)[i] \in Digits

UsizeVal(s) == DigitsVal(UsizeBody(s), 0)

StartsWith(s, prefix) ==
  /\ Len(prefix) <= Len(s)
  /\ SubSeq(s, 1, Len(prefix)) = prefix

(***************************************************************************)
(* The stat catalog (cgroup/stats.rs).  STATS[i + 1] is the code's         *)
(* STATS[i].                                                               *)
(***************************************************************************)
STATS ==
  <<
    [def |-> <<"m", "e", "m", "o", "r", "y", ".", "c", "u", "r", "r", "e", "n", "t">>,
     stype |-> "MemQtyCumul",
     proc_def |-> <<"s", "t", "a", "t", "u", "s", "/", "=", "/", "1", "/", "V", "m", "R", "S", "S", ":", "/", "2">>,
     proc_stype |-> "MemQtyKb"],
    [def |-> <<"m", "e", "m", "o", "r", "y", ".", "s", "w", "a", "p", ".", "c", "u", "r", "r", "e", "n", "t">>,
     stype |-> "MemQtyCumul",
     proc_def |-> <<"s", "t", "a", "t", "u", "s", "/", "=", "/", "1", "/", "V", "m", "S", "w", "a", "p", ":", "/", "2">>,
     proc_stype |-> "MemQtyKb"],
    [def |-> <<"m", "e", "m", "o", "r", "y", ".", "s", "t", "a", "t", "/", "=", "/", "1", "/", "a", "n", "o", "n", "/", "2">>,
     stype |-> "MemQtyCumul",
     proc_def |-> <<"s", "t", "a", "t", "u", "s", "/", "=", "/", "1", "/", "R", "s", "s", "A", "n", "o", "n", ":", "/", "2">>,
     proc_stype |-> "MemQtyKb"],
    [def |-> <<"m", "e", "m", "o", "r", "y", ".", "s", "t", "a", "t", "/", "=", "/", "1", "/", "f", "i", "l", "e", "/", "2">>,
     stype |-> "MemQtyCumul",
     proc_def |-> <<>>,
     proc_stype |-> "None"],
    [def |-> <<"m", "e", "m", "o", "r", "y", ".", "s", "t", "a", "t", "/", "=", "/", "1", "/", "k", "e", "r", "n", "e", "l", "_", "s", "t", "a", "c", "k", "/", "2">>,
     stype |-> "MemQtyCumul",
     proc_def |-> <<>>,
     proc_stype |-> "None"],
    [def |-> <<"m", "e", "m", "o", "r", "y", ".", "s", "t", "a", "t", "/", "=", "/", "1", "/", "p", "a", "g", "e", "t", "a", "b", "l", "e", "s", "/", "2">>,
     stype |-> "MemQtyCumul",
     proc_def |-> <<"s", "t", "a", "t", "u", "s", "/", "=", "/", "1", "/", "V", "m", "P", "T", "E", ":", "/", "2">>,
     proc_stype |-> "MemQtyKb"],
    [def |-> <<"m", "e", "m", "o", "r", "y", ".", "s", "t", "a", "t", "/", "=", "/", "1", "/", "p", "e", "r", "c", "p", "u", "/", "2">>,
     stype |-> "MemQtyCumul",
     proc_def |-> <<>>,
     proc_stype |-> "None"],
    [def |-> <<"m", "e", "m", "o", "r", "y", ".", "s", "t", "a", "t", "/", "=", "/", "1", "/", "s", "o", "c", "k", "/", "2">>,
     stype |-> "MemQtyCumul",
     proc_def |-> <<>>,
     proc_stype |-> "None"],
    [def |-> <<"m", "e", "m", "o", "r", "y", ".", "s", "t", "a", "t", "/", "=", "/", "1", "/", "s", "h", "m", "e", "m", "/", "2">>,
     stype |-> "MemQtyCumul",
     proc_def |-> <<"s", "t", "a", "t", "u", "s", "/", "=", "R", "s", "s", "S", "h", "m", "e", "m", ":", "/", "2">>,
     proc_stype |-> "MemQtyKb"],
    [def |-> <<"m", "e", "m", "o", "r", "y", ".", "s", "t", "a", "t", "/", "=", "/", "1", "/", "f", "i", "l", "e", "_", "m", "a", "p", "p", "e", "d", "/", "2">>,
     stype |-> "MemQtyCumul",
     proc_def |-> <<"s", "t", "a", "t", "u", "s", "/", "=", "/", "1", "/", "R", "s", "s", "F", "i", "l", "e", ":", "/", "2">>,
     proc_stype |-> "MemQtyKb"],
    [def |-> <<"m", "e", "m", "o", "r", "y", ".", "s", "t", "a", "t", "/", "=", "/", "1", "/", "f", "i", "l", "e", "_", "d", "i", "r", "t", "y", "/", "2">>,
     stype |-> "MemQtyCumul",
     proc_def |-> <<>>,
     proc_stype |-> "None"],
    [def |-> <<"m", "e", "m", "o", "r", "y", ".", "s", "t", "a", "t", "/", "=", "/", "1", "/", "f", "i", "l", "e", "_", "w", "r", "i", "t", "e", "b", "a", "c", "k", "/", "2">>,
     stype |-> "MemQtyCumul",
     proc_def |-> <<>>,
     proc_stype |-> "None"],
    [def |-> <<"m", "e", "m", "o", "r", "y", ".", "s", "t", "a", "t", "/", "=", "/", "1", "/", "s", "w", "a", "p", "c", "a", "c", "h", "e", "d", "/", "2">>,
     stype |-> "MemQtyCumul",
     proc_def |-> <<>>,
     proc_stype |-> "None"],
    [def |-> <<"m", "e", "m", "o", "r", "y", ".", "s", "t", "a", "t", "/", "=", "/", "1", "/", "u", "n", "e", "v", "i", "c", "t", "a", "b", "l", "e", "/", "2">>,
     stype |-> "MemQtyCumul",
     proc_def |-> <<"s", "t", "a", "t", "u", "s", "/", "=", "/", "1", "/", "V", "m", "P", "i", "n", ":", "/", "2">>,
     proc_stype |-> "MemQtyKb"],
    [def |-> <<"m", "e", "m", "o", "r", "y", ".", "s", "t", "a", "t", "/", "=", "/", "1", "/", "s", "l", "a", "b", "/", "2">>,
     stype |-> "MemQtyCumul",
     proc_def |-> <<>>,
     proc_stype |-> "None"],
    [def |-> <<"c", "g", "r", "o", "u", "p", ".", "p", "r", "o", "c", "s", "/", "#">>,
     stype |-> "Qty",
     proc_def |-> <<>>,
     proc_stype |-> "None"],
    [def |-> <<"c", "g", "r", "o", "u", "p", ".", "t", "h", "r", "e", "a", "d", "s", "/", "#">>,
     stype |-> "Qty",
     proc_def |-> <<>>,
     proc_stype |-> "None"]
  >>

NumStats == Len(STATS)

(***************************************************************************)
(* Stat-definition parsers.  A processor is a record tagged by kind;       *)
(* NoProcessor is get_file_processor's None and Panicked a panic!/unwrap   *)
(* abort.                                                                  *)
(***************************************************************************)
NoProcessor == [kind |-> "None"]
Panicked == [kind |-> "panic"]
SingleValueProcessor(file) == [kind |-> "SingleValue", file |-> file]
CountProcessor(file) == [kind |-> "Count", file |-> file]
KeyedProcessor(file, match_col, match_val, ret_col) ==
  [kind |-> "Keyed", file |-> file, match_col |-> match_col,
   match_val |-> match_val, ret_col |-> ret_col]

\* get_file_processor without its zero-column check (lines 81-83)
get_file_processor_no_zero_check(d) ==
  LET split == Split(d) IN
  IF Len(split) = 0 \/ split[1] = <<>> THEN NoProcessor
  ELSE IF Len(split) = 1 THEN SingleValueProcessor(split[1])
  ELSE IF split[2] = <<"=">> THEN
    IF Len(split) # 5 \/ split[4] = <<>> THEN NoProcessor
    ELSE IF ~IsUsize(split[3]) \/ ~IsUsize(split[5]) THEN NoProcessor
    ELSE LET match_col == UsizeVal(split[3])
             ret_col == UsizeVal(split[5])
         IN KeyedProcessor(split[1], match_col, split[4], ret_col)
  ELSE IF split[2] = <<"#">> THEN
    IF Len(split) # 2 THEN NoProcessor ELSE CountProcessor(split[1])
  ELSE NoProcessor

\* file_proc/mod.rs: the parser of the process lister
get_file_processor(d) ==
  LET split == Split(d) IN
  IF Len(split) = 0 \/ split[1] = <<>> THEN NoProcessor
  ELSE IF Len(split) = 1 THEN SingleValueProcessor(split[1])
  ELSE IF split[2] = <<"=">> THEN
    IF Len(split) # 5 \/ split[4] = <<>> THEN NoProcessor
    ELSE IF ~IsUsize(split[3]) \/ ~IsUsize(split[5]) THEN NoProcessor
    ELSE LET match_col == UsizeVal(split[3])
             ret_col == UsizeVal(split[5])
         IN IF match_col = 0 \/ ret_col = 0 THEN NoProcessor
            ELSE KeyedProcessor(split[1], match_col, split[4], ret_col)
  ELSE IF split[2] = <<"#">> THEN
    IF Len(split) # 2 THEN NoProcessor ELSE CountProcessor(split[1])
  ELSE NoProcessor

\* cgroup-side KeyedProcessor::new: ret_col.parse::<usize>().unwrap()
CGroupKeyedProcessor(file, line_start, ret_col) ==
  IF ~IsUsize(ret_col) THEN Panicked
  ELSE [kind |-> "CGroupKeyed", file |-> file, match_string |-> line_start,
        ret_col |-> UsizeVal(ret_col)]

\* cgroup/mod.rs: the parser load_cgroups calls with the definition string
get_stat_processor(stat) ==
  LET split == Split(stat) IN
  IF Len(split) = 1 THEN SingleValueProcessor(split[1])
  ELSE IF Len(split) = 3 /\ StartsWith(split[2], <<"=">>)
    THEN CGroupKeyedProcessor(split[1], Tail(split[2]), split[3])
  ELSE Panicked

\* cgroup/file_proc/mod.rs: the parser taking a catalog index
file_proc_get_stat_processor(stat) ==
  IF stat \notin 0..(NumStats - 1) THEN Panicked
  ELSE LET split == Split(STATS[stat + 1].def) IN
    IF Len(split) = 1 THEN SingleValueProcessor(split[1])
    ELSE IF Len(split) = 3 /\ StartsWith(split[2], <<"=">>)
      THEN CGroupKeyedProcessor(split[1], Tail(split[2]), split[3])
    ELSE IF Len(split) = 2 /\ split[2] = <<"#">> THEN CountProcessor(split[1])
    ELSE Panicked

(***************************************************************************)
(* Value extractors.  A pseudo-file is NoFile (File::open fails) or its    *)
(* lines; a result is Ok(value), Err(error) or Panic.                      *)
(***************************************************************************)
NoFile == [exists |-> FALSE, lines |-> <<>>]
FileOf(lines) == [exists |-> TRUE, lines |-> lines]

Ok(v) == [tag |-> "Ok", value |-> v]
Err(e) == [tag |-> "Err", error |-> e]
Panic == [tag |-> "Panic"]

RECURSIVE SplitWsAcc(_, _, _)
SplitWsAcc(s, cur, acc) ==
  LET flush == IF cur = <<>> THEN acc ELSE Append(acc, cur) IN
  IF s = <<>> THEN flush
  ELSE IF Head(s) = " " THEN SplitWsAcc(Tail(s), <<>>, flush)
  ELSE SplitWsAcc(Tail(s), Append(cur, Head(s)), acc)

\* line.split_whitespace().collect()
SplitWhitespace(line) == SplitWsAcc(line, <<>>, <<>>)

\* the loop of file_proc KeyedProcessor::get_value over lines[i..]
RECURSIVE KeyedScan(_, _, _)
KeyedScan(kp, lines, i) ==
  IF i > Len(lines) THEN Err("ValueNotFound")
  ELSE LET columns == SplitWhitespace(lines[i]) IN
    IF kp.match_col < Len(columns) /\ columns[kp.match_col] = kp.match_val
      THEN IF kp.ret_col > Len(columns) THEN Err("ValueNotFound")
           ELSE Ok(columns[kp.ret_col])
      ELSE KeyedScan(kp, lines, i + 1)

\* file_proc/keyed/mod.rs KeyedProcessor::get_value
KeyedProcessor_get_value(kp, file) ==
  IF ~file.exists THEN Err("IoError") ELSE KeyedScan(kp, file.lines, 1)

\* the loop of the cgroup-side KeyedProcessor::get_stat over lines[i..]:
\* columns[0] of a blank line and columns[ret_col - 1] with ret_col = 0
\* are out of bounds
RECURSIVE CGroupKeyedScan(_, _, _)
CGroupKeyedScan(kp, lines, i) ==
  IF i > Len(lines) THEN Err("ValueNotFound")
  ELSE LET columns == SplitWhitespace(lines[i]) IN
    IF Len(columns) = 0 THEN Panic
    ELSE IF StartsWith(columns[1], kp.match_string)
      THEN IF kp.ret_col > Len(columns) THEN Err("ValueNotFound")
           ELSE IF kp.ret_col = 0 THEN Panic
           ELSE IF IsUsize(columns[kp.ret_col])
             THEN Ok(UsizeVal(columns[kp.ret_col]))
           ELSE Err("ParseError")
      ELSE CGroupKeyedScan(kp, lines, i + 1)

\* cgroup/mod.rs and cgroup/file_proc/keyed/mod.rs KeyedProcessor::get_stat
\* (the two copies are the same code)
CGroupKeyedProcessor_get_stat(kp, file) ==
  IF ~file.exists THEN Err("IoError") ELSE CGroupKeyedScan(kp, file.lines, 1)

\* usize::to_string: the decimal digits of n
RECURSIVE to_string(_)
to_string(n) ==
  LET digit == <<"0", "1", "2", "3", "4", "5", "6", "7", "8", "9">>[(n % 10) + 1]
  IN IF n < 10 THEN <<digit>> ELSE Append(to_string(n \div 10), digit)

\* For the extractors below an item of file.lines is what BufRead::lines
\* yields: Ok(line), or Err("IoError") for a line that cannot be read.
\* file_proc/single_value/mod.rs:22-38
SingleValueProcessor_get_value(file) ==
  IF ~file.exists THEN Err("IoError")
  ELSE IF file.lines = <<>> THEN Err("ValueNotFound")
  ELSE IF file.lines[1].tag = "Err" THEN Err("IoError")
  ELSE Ok(file.lines[1].value)

\* file_proc/count/mod.rs: lines().count() counts every item
CountProcessor_get_value(file) ==
  IF ~file.exists THEN Err("IoError") ELSE Ok(to_string(Len(file.lines)))

\* BufRead::lines on the text of a file, "LF" being the line feed: the
\* lines without their terminators, a last line needing none
RECURSIVE BufLinesAcc(_, _, _)
BufLinesAcc(s, cur, acc) ==
  IF s = <<>> THEN (IF cur = <<>> THEN acc ELSE Append(acc, cur))
  ELSE IF Head(s) = "LF" THEN BufLinesAcc(Tail(s), <<>>, Append(acc, cur))
  ELSE BufLinesAcc(Tail(s), Append(cur, Head(s)), acc)

BufLines(text) == BufLinesAcc(text, <<>>, <<>>)

\* a file that opens and whose every line reads
FileText(text) ==
  FileOf([i \in 1..Len(BufLines(text)) |-> Ok(BufLines(text)[i])])

\* file_proc/mod.rs:13-18 reporting a parse failure as ValueNotFound
FileProcessor_get_stat_not_found(value) ==
  IF value.tag = "Err" THEN value
  ELSE IF IsUsize(value.value) THEN Ok(UsizeVal(value.value))
  ELSE Err("ValueNotFound")

\* file_proc/mod.rs:13-18: get_value(path)? and then parse::<usize>()?
FileProcessor_get_stat(value) ==
  IF value.tag = "Err" THEN value
  ELSE IF IsUsize(value.value) THEN Ok(UsizeVal(value.value))
  ELSE Err("ParseError")

(***************************************************************************)
(* The cgroup tree loader (cgroup/mod.rs).                                 *)
(*                                                                         *)
(* A path is the sequence of its components.  The cgroup filesystem is a   *)
(* record fs: fs.dir[d] says, for each directory d of Dirs, whether it is  *)
(* absent, cannot be listed (read_dir fails) or is a directory, and then   *)
(* what the compiled extractor's get_stat yields in it; fs.order is the    *)
(* order in which read_dir lists names, which the filesystem chooses.      *)
(* Option<T> is <<>> (None) or <<x>> (Some(x)).                            *)
(***************************************************************************)
None == <<>>
Some(x) == <<x>>

Names == {"a", "b", "c"}
SelfName == "<self>"
Dirs == {<<>>, <<"a">>, <<"b">>, <<"a", "c">>}

\* byte order of the component names: '<' sorts before the letters
NameRank(n) ==
  CASE n = SelfName -> 0 [] n = "a" -> 1 [] n = "b" -> 2 [] n = "c" -> 3

\* PathBuf's Ord: component-wise lexicographic comparison, p < q
RECURSIVE PathLess(_, _)
PathLess(p, q) ==
  IF q = <<>> THEN FALSE
  ELSE IF p = <<>> THEN TRUE
  ELSE IF Head(p) # Head(q) THEN NameRank(Head(p)) < NameRank(Head(q))
  ELSE PathLess(Tail(p), Tail(q))

CGroup_new(path) ==
  [path |-> path, error |-> None, stat |-> 0, children |-> <<>>]

\* CGroup::new_error built with a stat of 1
CGroup_new_error_stat_1(path, msg) ==
  [path |-> path, error |-> Some(msg), stat |-> 1, children |-> <<>>]

CGroup_new_error(path, msg) ==
  [path |-> path, error |-> Some(msg), stat |-> 0, children |-> <<>>]

SortOrders == {"NameAsc", "NameDsc", "SizeAsc", "SizeDsc"}

\* the comparators with SizeDsc not reversed
Before_size_dsc_not_reversed(sort, a, b) ==
  CASE sort = "NameAsc" -> PathLess(a.path, b.path)
    [] sort = "NameDsc" -> PathLess(b.path, a.path)
    [] sort = "SizeAsc" -> a.stat < b.stat
    [] sort = "SizeDsc" -> a.stat < b.stat

\* the comparator handed to sort_by says Less: a is ordered before b
Before(sort, a, b) ==
  CASE sort = "NameAsc" -> PathLess(a.path, b.path)
    [] sort = "NameDsc" -> PathLess(b.path, a.path)
    [] sort = "SizeAsc" -> a.stat < b.stat
    [] sort = "SizeDsc" -> b.stat < a.stat

\* slice::sort_by is stable: x goes behind every element not ordered after it
RECURSIVE InsertSorted(_, _, _)
InsertSorted(sort, s, x) ==
  IF s = <<>> THEN <<x>>
  ELSE IF Before(sort, x, s[Len(s)])
    THEN Append(InsertSorted(sort, SubSeq(s, 1, Len(s) - 1), x), s[Len(s)])
  ELSE Append(s, x)

RECURSIVE SortFrom(_, _, _, _)
SortFrom(sort, s, i, acc) ==
  IF i > Len(s) THEN acc
  ELSE SortFrom(sort, s, i + 1, InsertSorted(sort, acc, s[i]))

Reverse(s) == [i \in 1..Len(s) |-> s[Len(s) + 1 - i]]

\* the descending orders sorted ascending and then reversed
sort_by_reversing(sort, s) ==
  CASE sort = "NameDsc" -> Reverse(SortFrom("NameAsc", s, 1, <<>>))
    [] sort = "SizeDsc" -> Reverse(SortFrom("SizeAsc", s, 1, <<>>))
    [] OTHER -> SortFrom(sort, s, 1, <<>>)

sort_by(sort, s) == SortFrom(sort, s, 1, <<>>)

RECURSIVE SumStat(_)
SumStat(children) ==
  IF children = <<>> THEN 0 ELSE Head(children).stat + SumStat(Tail(children))

\* AddSelf without the comparison: the difference whatever its sign
AddSelf_unguarded(rel_path, stat, children) ==
  IF children # <<>> /\ SumStat(children) # stat
    THEN Append(children,
                [CGroup_new(Append(rel_path, SelfName))
                   EXCEPT !.stat = stat - SumStat(children)])
    ELSE children

\* AddSelf comparing with <= : a <self> node of value 0 on equality
AddSelf_on_equal(rel_path, stat, children) ==
  IF children # <<>> /\ SumStat(children) <= stat
    THEN Append(children,
                [CGroup_new(Append(rel_path, SelfName))
                   EXCEPT !.stat = stat - SumStat(children)])
    ELSE children

\* cgroup/mod.rs:138-149: the <self> node for the node's own share
AddSelf(rel_path, stat, children) ==
  IF children # <<>> /\ SumStat(children) < stat
    THEN Append(children,
                [CGroup_new(Append(rel_path, SelfName))
                   EXCEPT !.stat = stat - SumStat(children)])
    ELSE children

\* the names read_dir lists in rel_path that are directories
SubDirs(fs, rel_path) ==
  SelectSeq(fs.order,
            LAMBDA n : /\ Append(rel_path, n) \in Dirs
                       /\ fs.dir[Append(rel_path, n)].kind # "absent")

RECURSIVE load_cgroup_rec(_, _, _)
load_cgroup_rec(fs, rel_path, sort) ==
  IF fs.dir[rel_path].kind # "dir" THEN Err("IoError")
  ELSE
    LET subdirs == SubDirs(fs, rel_path)
        children ==
          [i \in 1..Len(subdirs) |->
             LET sub_rel_path == Append(rel_path, subdirs[i])
                 sub == load_cgroup_rec(fs, sub_rel_path, sort)
             IN IF sub.tag = "Ok" THEN sub.value
                ELSE CGroup_new_error(sub_rel_path, sub.error)]
        got == fs.dir[rel_path].stat
        stat == IF got.tag = "Ok" THEN got.value ELSE 0
        error == IF got.tag = "Ok" THEN None ELSE Some(got.error)
    IN Ok([path |-> rel_path, error |-> error, stat |-> stat,
           children |-> sort_by(sort, AddSelf(rel_path, stat, children))])

\* cgroup/mod.rs:86-104; stat is the definition string of the statistic
load_cgroups(stat, fs, sort) ==
  IF get_stat_processor(stat) = Panicked THEN Panic
  ELSE LET root == load_cgroup_rec(fs, <<>>, sort) IN
    IF root.tag = "Ok"
      THEN IF root.value.stat = 0 THEN Ok(root.value.children)
           ELSE Ok(<<root.value>>)
    ELSE Ok(<<CGroup_new_error(<<>>, root.error)>>)

(***************************************************************************)
(* The tree view (app/scenes/cgroup_tree/tree.rs).  An identifier is the   *)
(* vector of 0-based sibling indices leading to a node; the widget state   *)
(* is the selected identifier (<<>> when nothing is selected) and the set  *)
(* of opened identifiers.                                                  *)
(***************************************************************************)

\* tree.rs:257-266: the fold indexes level[e] and panics when e is out of
\* range; the result is Ok(None), Ok(Some(node)) or Panic
RECURSIVE FoldSelected(_, _, _)
FoldSelected(level, sel, acc) ==
  IF sel = <<>> THEN Ok(acc)
  ELSE IF Head(sel) >= Len(level) THEN Panic
  ELSE FoldSelected(level[Head(sel) + 1].children, Tail(sel),
                    Some(level[Head(sel) + 1]))

cgroup_from_selected(cgs, sel) == FoldSelected(cgs, sel, None)

\* tree.rs:92-97: was this path previously selected?
SelectIfPath(old_sel, path, next, select) ==
  IF old_sel = Some(path) THEN Some(next) ELSE select

\* tree.rs:99-103 opening every node that has children below it
OpenIfPath_always(old_open, path, next, opn) == opn \cup {next}

\* tree.rs:99-103: was this path previously expanded?
OpenIfPath(old_open, path, next, opn) ==
  IF path \in old_open THEN opn \cup {next} ELSE opn

\* tree.rs:109-111 without the is_some test
MergeSubSelect_unconditional(sub_select, select) == sub_select

\* tree.rs:109-111: a match in the subtree replaces the match so far
MergeSubSelect(sub_select, select) ==
  IF sub_select # None THEN sub_select ELSE select

\* tree.rs:70-118: the identifier to select and the identifiers opened
RECURSIVE build_tree_level(_, _, _, _)
RECURSIVE BuildLevelFrom(_, _, _, _, _, _, _)
BuildLevelFrom(cgs, old_sel, old_open, cur_item, i, select, opn) ==
  IF i > Len(cgs) THEN [select |-> select, opened |-> opn]
  ELSE
    LET cg == cgs[i]
        next == Append(cur_item, i - 1)
        select1 == SelectIfPath(old_sel, cg.path, next, select)
        opn1 == OpenIfPath(old_open, cg.path, next, opn)
        sub == build_tree_level(cg.children, old_sel, old_open, next)
    IN BuildLevelFrom(cgs, old_sel, old_open, cur_item, i + 1,
                      MergeSubSelect(sub.select, select1),
                      opn1 \cup sub.opened)

build_tree_level(cgs, old_sel, old_open, cur_item) ==
  BuildLevelFrom(cgs, old_sel, old_open, cur_item, 1, None, {})

\* tree.rs:59-67 opening the single root on every build
ExpandSingleRoot_every_build(n_items, flag, opn) ==
  IF n_items = 1 THEN [opened |-> opn \cup {<<0>>}, single_root |-> TRUE]
  ELSE [opened |-> opn, single_root |-> FALSE]

\* tree.rs:59-67: expand the root on the switch to a single-root view
ExpandSingleRoot(n_items, flag, opn) ==
  IF n_items = 1
    THEN IF ~flag THEN [opened |-> opn \cup {<<0>>}, single_root |-> TRUE]
         ELSE [opened |-> opn, single_root |-> flag]
  ELSE [opened |-> opn, single_root |-> FALSE]

\* tui_tree_widget::flatten: the visible rows in display order, descending
\* only into opened identifiers
RECURSIVE flatten(_, _, _)
RECURSIVE FlattenFrom(_, _, _, _)
FlattenFrom(opn, items, current, i) ==
  IF i > Len(items) THEN <<>>
  ELSE
    LET child_identifier == Append(current, i - 1)
        child_result ==
          IF child_identifier \in opn
            THEN flatten(opn, items[i].children, child_identifier)
            ELSE <<>>
    IN <<child_identifier>> \o child_result
         \o FlattenFrom(opn, items, current, i + 1)

flatten(opn, items, current) == FlattenFrom(opn, items, current, 1)

Min(a, b) == IF a < b THEN a ELSE b
Max(a, b) == IF a > b THEN a ELSE b

\* Iterator::position: the 0-based index of the first element equal to x
Position(s, x) ==
  LET hits == {i \in 1..Len(s) : s[i] = x}
  IN IF hits = {} THEN None
     ELSE Some((CHOOSE i \in hits : \A j \in hits : i <= j) - 1)

\* tree.rs:168-195: the identifier selected after the move, and the
\* PollResult: Some(vec![]) asks for a redraw, None for nothing
move_by(visible, sel, amount, no_pos) ==
  IF visible = <<>> THEN [selected |-> sel, result |-> None]
  ELSE
    LET current_index == Position(visible, sel)
        raw == IF current_index # None THEN current_index[1] + amount
               ELSE no_pos + amount
        new_index == Min(Max(raw, 0), Len(visible) - 1)
    IN IF Some(new_index) # current_index
         THEN [selected |-> visible[new_index + 1], result |-> Some(<<>>)]
       ELSE [selected |-> sel, result |-> None]

\* TreeState::key_left: close the selected node, or else select its parent
key_left(sel, opn) ==
  IF sel \in opn THEN [selected |-> sel, opened |-> opn \ {sel}]
  ELSE [selected |-> SubSeq(sel, 1, Len(sel) - 1), opened |-> opn]

\* TreeState::key_right: open the selected node; open ignores <<>>
key_right(sel, opn) == IF sel = <<>> THEN opn ELSE opn \cup {sel}

\* select_first taking the first row for granted
select_first_unchecked(items) == <<0>>

\* TreeState::select_first and select_last
select_first(items) == IF items = <<>> THEN <<>> ELSE <<0>>

select_last(opn, items) ==
  LET visible == flatten(opn, items, <<>>)
  IN IF visible = <<>> THEN <<>> ELSE visible[Len(visible)]

(***************************************************************************)
(* The process list (proc/mod.rs) and its table (app/scenes/procs/         *)
(* table.rs).  A cgroup directory is [procs, threads, listable, children]: *)
(* its cgroup.procs and cgroup.threads files, whether read_dir succeeds on *)
(* it, and its child directories.  /proc gives for each pid its cmdline    *)
(* and comm files and the outcome of reading the statistic.                *)
(***************************************************************************)
RECURSIVE ConcatOk(_)
ConcatOk(results) ==
  IF results = <<>> THEN <<>>
  ELSE (IF Head(results).tag = "Ok" THEN Head(results).value ELSE <<>>)
         \o ConcatOk(Tail(results))

\* proc/mod.rs:122-126
IdFile(cg, threads) == IF threads THEN cg.threads ELSE cg.procs

\* proc/mod.rs:134-139: a line that cannot be read or is not a usize
BadLine(line) == line.tag = "Err" \/ ~IsUsize(line.value)

\* proc/mod.rs:131-141 leaving out the lines in error
ParsePids_skip_bad_lines(file) ==
  LET good == SelectSeq(file.lines, LAMBDA line : ~BadLine(line))
  IN Ok([i \in 1..Len(good) |-> UsizeVal(good[i].value)])

\* proc/mod.rs:131-141: collect stops at the first line in error
ParsePids(file) ==
  LET bad == {i \in 1..Len(file.lines) : BadLine(file.lines[i])}
      first == CHOOSE i \in bad : \A j \in bad : i <= j
  IN IF bad = {} THEN Ok([i \in 1..Len(file.lines) |->
                            UsizeVal(file.lines[i].value)])
     ELSE IF file.lines[first].tag = "Err" THEN Err("IoError")
     ELSE Err("InvalidData")

\* proc/mod.rs:143-156 keeping the ids of every child, failed or not
ExtendChildren_failed_child_fatal(pids, child_pids) ==
  IF \E i \in 1..Len(child_pids) : child_pids[i].tag = "Err"
    THEN Err("IoError")
  ELSE Ok(pids \o ConcatOk(child_pids))

\* proc/mod.rs:143-156: the ids of the children that loaded are appended
ExtendChildren(pids, child_pids) == Ok(pids \o ConcatOk(child_pids))

\* proc/mod.rs:118-159
RECURSIVE load_pids(_, _, _)
load_pids(cg, threads, include_children) ==
  LET file == IdFile(cg, threads)
      pids == ParsePids(file)
      child_pids == [i \in 1..Len(cg.children) |->
                       load_pids(cg.children[i], threads, TRUE)]
  IN IF ~file.exists THEN Err("IoError")
     ELSE IF pids.tag = "Err" THEN pids
     ELSE IF ~include_children THEN pids
     ELSE IF ~cg.listable THEN Err("IoError")
     ELSE ExtendChildren(pids.value, child_pids)

\* the bytes of the characters command lines are made of here
CharCode ==
  [c \in {"NUL", " ", "<", ">", "U", "[", "]", "a", "b", "f", "h",
           "k", "n", "o", "r", "s", "w"} |->
     CASE c = "NUL" -> 0 [] c = " " -> 32 [] c = "<" -> 60 [] c = ">"
       -> 62 [] c = "U" -> 85 [] c = "[" -> 91 [] c = "]" -> 93 [] c =
       "a" -> 97 [] c = "b" -> 98 [] c = "f" -> 102 [] c = "h" -> 104
       [] c = "k" -> 107 [] c = "n" -> 110 [] c = "o" -> 111 [] c =
       "r" -> 114 [] c = "s" -> 115 [] c = "w" -> 119]

\* String's Ord: lexicographic by byte, a < b
RECURSIVE StrLess(_, _)
StrLess(a, b) ==
  IF b = <<>> THEN FALSE
  ELSE IF a = <<>> THEN TRUE
  ELSE IF Head(a) # Head(b) THEN CharCode[Head(a)] < CharCode[Head(b)]
  ELSE StrLess(Tail(a), Tail(b))

\* proc/mod.rs:58-60
NulToSpace(string) ==
  [i \in 1..Len(string) |-> IF string[i] = "NUL" THEN " " ELSE string[i]]

\* proc/mod.rs:55-65 with comm tried before cmdline
ProcCmd_comm_first(info) ==
  LET comm == SingleValueProcessor_get_value(info.comm)
      cmdline == SingleValueProcessor_get_value(info.cmdline)
  IN IF comm.tag = "Ok" THEN <<"[">> \o comm.value \o <<"]">>
     ELSE IF cmdline.tag = "Ok" THEN NulToSpace(cmdline.value)
     ELSE <<"<", "U", "n", "k", "n", "o", "w", "n", ">">>

\* proc/mod.rs:55-65: the first line of cmdline with NULs as spaces, else
\* the first line of comm in brackets, else <Unknown>
ProcCmd(info) ==
  LET cmdline == SingleValueProcessor_get_value(info.cmdline)
      comm == SingleValueProcessor_get_value(info.comm)
  IN IF cmdline.tag = "Ok" THEN NulToSpace(cmdline.value)
     ELSE IF comm.tag = "Ok" THEN <<"[">> \o comm.value \o <<"]">>
     ELSE <<"<", "U", "n", "k", "n", "o", "w", "n", ">">>

\* proc/mod.rs:67-84 for a statistic with a processor of type MemQtyKb
ProcStat(stat_processor, info) ==
  IF stat_processor # NoProcessor
    THEN IF info.value.tag = "Ok" THEN Ok(info.value.value * 1024)
         ELSE info.value
  ELSE Ok(0)

ProcSortOrders ==
  {"PidAsc", "PidDsc", "StatAsc", "StatDsc", "CmdAsc", "CmdDsc"}

unwrap_or_0(r) == IF r.tag = "Ok" THEN r.value ELSE 0

\* proc/mod.rs:91-113: the comparator says Less, a is ordered before b
ProcBefore(sort, a, b) ==
  CASE sort = "PidAsc" -> a.pid < b.pid
    [] sort = "PidDsc" -> b.pid < a.pid
    [] sort = "CmdAsc" -> StrLess(a.cmd, b.cmd)
    [] sort = "CmdDsc" -> StrLess(b.cmd, a.cmd)
    [] sort = "StatAsc" -> unwrap_or_0(a.stat) < unwrap_or_0(b.stat)
    [] sort = "StatDsc" -> unwrap_or_0(b.stat) < unwrap_or_0(a.stat)

RECURSIVE ProcInsertSorted(_, _, _)
ProcInsertSorted(sort, s, x) ==
  IF s = <<>> THEN <<x>>
  ELSE IF ProcBefore(sort, x, s[Len(s)])
    THEN Append(ProcInsertSorted(sort, SubSeq(s, 1, Len(s) - 1), x), s[Len(s)])
  ELSE Append(s, x)

RECURSIVE ProcSortFrom(_, _, _, _)
ProcSortFrom(sort, s, i, acc) ==
  IF i > Len(s) THEN acc
  ELSE ProcSortFrom(sort, s, i + 1, ProcInsertSorted(sort, acc, s[i]))

proc_sort_by(sort, s) == ProcSortFrom(sort, s, 1, <<>>)

\* proc/mod.rs:28-116: Err, Panic ("Unexpected stat type") or Ok(rows)
load_procs(cg, proc, include_children, threads, stat, sort) ==
  LET pids == load_pids(cg, threads, include_children)
      stat_processor == get_file_processor(STATS[stat + 1].proc_def)
      stat_type == STATS[stat + 1].proc_stype
  IN IF pids.tag = "Err" THEN pids
     ELSE IF /\ pids.value # <<>>
             /\ stat_processor # NoProcessor
             /\ stat_type # "MemQtyKb"
       THEN Panic
     ELSE Ok(proc_sort_by(sort,
               [i \in 1..Len(pids.value) |->
                  [pid |-> pids.value[i],
                   cmd |-> ProcCmd(proc[pids.value[i]]),
                   stat |-> ProcStat(stat_processor, proc[pids.value[i]])]]))

\* table.rs:58-64 falling back to the first row when the pid is gone
Reselect_fallback_first(procs, old_pid) ==
  IF old_pid # None
    THEN LET pos == Position([i \in 1..Len(procs) |-> procs[i].pid], old_pid[1])
         IN IF pos # None THEN pos
            ELSE IF procs # <<>> THEN Some(0) ELSE None
  ELSE None

\* table.rs:58-64: re-select the pid if there was one and it is still there
Reselect(procs, old_pid) ==
  IF old_pid # None
    THEN Position([i \in 1..Len(procs) |-> procs[i].pid], old_pid[1])
  ELSE None

\* table.rs:291-311: the row selected after the move and the PollResult; a
\* new_row of 0 wraps to usize::MAX in (new_row - 1) as usize
move_to(n_items, sel, new_row) ==
  IF n_items = 0 THEN [selected |-> sel, result |-> None]
  ELSE [selected |->
          IF new_row < 0
            THEN IF -new_row > n_items THEN Some(0) ELSE Some(n_items + new_row)
          ELSE IF new_row = 0 THEN Some(n_items - 1)
          ELSE Some(Min(new_row - 1, n_items - 1)),
        result |-> Some(<<>>)]

\* table.rs:257-288 wrapping from the last row to the first and back
table_move_by_wrapping(n_items, sel, amount) ==
  IF amount = 0 \/ n_items = 0 THEN [selected |-> sel, result |-> None]
  ELSE IF sel # None
    THEN [selected |-> Some((sel[1] + amount) % n_items),
          result |-> Some(<<>>)]
  ELSE move_to(n_items, sel, amount)

\* table.rs:257-288
table_move_by(n_items, sel, amount) ==
  IF amount = 0 \/ n_items = 0 THEN [selected |-> sel, result |-> None]
  ELSE IF sel # None
    THEN LET cur_row == sel[1]
             new_row == IF amount > 0 THEN Min(cur_row + amount, n_items - 1)
                        ELSE IF cur_row < -amount THEN 0
                        ELSE cur_row + amount
         IN IF cur_row # new_row
              THEN [selected |-> Some(new_row), result |-> Some(<<>>)]
            ELSE [selected |-> sel, result |-> None]
  ELSE move_to(n_items, sel, amount)

(***************************************************************************)
(* State.                                                                  *)
(***************************************************************************)
VARIABLES
  \* --- compiling a stat definition ---
  def,         \* the definition string handed to a parser
  parser,      \* the parser that ran last ("none" before any)
  processor,   \* what it returned
  \* --- running a keyed extractor ---
  file,        \* the pseudo-file it reads
  keyed,       \* the extractor's match column, match value, result column
  extractor,   \* the extractor that ran last ("none" before any)
  result,      \* what it returned
  \* --- one call of the cgroup tree loader ---
  load_stat,   \* index of the statistic in the catalog
  load_fs,     \* the cgroup filesystem it walks
  load_sort,   \* the sort order asked for
  loaded,      \* what load_cgroups returned (Err("none") before the call)
  \* --- the tree view (CGroupTree) ---
  cgroups,           \* the loaded root-level nodes
  tree_selected,     \* state.selected, an identifier (<<>> for none)
  tree_opened,       \* state.opened, a set of identifiers
  single_root,       \* the last build showed a single root
  page_size,         \* rows in a page, set by render
  tree_op,           \* the operation that ran last ("none" before any)
  old_selected,      \* build_tree's old_selected: the path selected before
  old_opened,        \* build_tree's old_opened: the paths opened before
  old_selected_id,   \* the identifier selected before the last build_tree
  old_opened_ids,    \* the identifiers opened before the last build_tree
  old_roots,         \* the number of roots before the last build_tree
  tree_loads,        \* what load_cgroups can return, fixed from the start
  \* --- the process table (ProcsTable) ---
  procs,             \* the loaded processes
  table_items,       \* the rows built from them
  table_error,       \* the load error shown instead of the rows
  table_selected,    \* state.selected, None or Some(row)
  table_op,          \* the operation that ran last ("none" before any)
  old_selected_pid,  \* build_table's old_selected_pid
  old_selected_row,  \* the row selected before the last build_table
  table_loads,       \* what load_procs can return, fixed from the start
  table_id_file,     \* the id file the last build_table's load_procs opened
  \* --- one call of proc::load_procs ---
  lp_cgroup,         \* the directory of the cgroup argument
  lp_proc,           \* /proc
  lp_include_children,
  lp_threads,
  lp_stat,
  lp_sort,
  lp_loaded,         \* Ok(rows), Err(e) or Panic ("none" before the call)
  \* --- one sort of a list of siblings or of processes ---
  sort_kind,         \* "cgroup" or "proc" ("none" before the sort)
  sort_orders,       \* the ascending and the descending order of one key
  sort_list,         \* the list before the sort
  sort_asc,          \* the list sorted ascending
  sort_dsc,          \* the list sorted descending
  \* --- the keys of the two views ---
  key_pressed,       \* the view and the key, when the last call of a view
                     \* handled a key
  key_result,        \* the PollResult its method returned
  table_page_size,   \* ProcsTable's page_size
  \* --- the process scene (ProcsScene) under its controller ---
  procs_scene,       \* cgroup, sort, proc_sort, stat, threads, include_children
  scene_result,      \* the PollResult key_event returned to the last call
  ctl_scene,         \* the active scene
  ctl_pc,            \* where the controller is in its loop
  ctl_reload,        \* the controller's reload flag
  ctl_actions,       \* the actions of the event still to apply
  ctl_hist,          \* whether a draw was made, and since the last draw:
                     \* the reloads, what the last one handed to the lister,
                     \* and the action list of the event; the sort key of
                     \* the process scene pressed last with no other
                     \* change of configuration since
  \* --- the application of app/mod.rs (App) ---
  app_scene,         \* scene
  app_sort,          \* sort
  app_tree_items,    \* tree_items, as the cgroups they show
  app_tree_state,    \* tree_state: selected and opened identifiers
  help_scroll,
  next_refresh,
  app_pc,            \* where run is: "top", "draw", "poll", "wait", "exit"
  app_wait,          \* the instant a wait for input ends, None if it never ends
  app_reload,        \* run's reload flag
  app_result,        \* the PollResult of the last poll
  now,               \* Instant::now()
  queue,             \* the input events waiting to be read
  app_env,           \* the run: what load_cgroups returns for each sort
                     \* order, whether the clock runs, the events that
                     \* arrive and how many of them can be queued
  app_event,         \* what ended the last poll: an event or the clock
  \* --- the stat chooser of app/scenes/stat_choose/mod.rs ---
  choose_items,      \* items, as the statistics they name
  choose_selected,   \* state.selected()
  choose_result,     \* the PollResult of the last event
  \* --- the help of the processes (app/scenes/procs_help/mod.rs) ---
  procs_help_scroll, \* help_scroll
  procs_help_result  \* the PollResult of the last key

parseVars == <<def, parser, processor>>
keyedVars == <<file, keyed, extractor, result>>
loadVars == <<load_stat, load_fs, load_sort, loaded>>
treeState == <<cgroups, tree_selected, tree_opened, single_root, page_size>>
treeHist ==
  <<tree_op, old_selected, old_opened, old_selected_id, old_opened_ids, old_roots>>
treeVars == <<treeState, treeHist, tree_loads>>
tableState == <<procs, table_items, table_error, table_selected>>
tableHist == <<table_op, old_selected_pid, old_selected_row, table_id_file>>
tableVars == <<tableState, tableHist, table_loads>>
sortVars == <<sort_kind, sort_orders, sort_list, sort_asc, sort_dsc>>
procVars ==
  <<lp_cgroup, lp_proc, lp_include_children, lp_threads, lp_stat, lp_sort,
    lp_loaded>>
navVars == <<key_pressed, key_result, table_page_size>>
sceneVars ==
  <<procs_scene, scene_result, ctl_scene, ctl_pc, ctl_reload, ctl_actions,
    ctl_hist>>
appVars ==
  <<app_scene, app_sort, app_tree_items, app_tree_state, help_scroll,
    next_refresh, app_pc, app_wait, app_reload, app_result, now, queue, app_env,
    app_event>>
chooseVars == <<choose_items, choose_selected, choose_result>>
procsHelpVars == <<procs_help_scroll, procs_help_result>>
staticVars == <<chooseVars, procsHelpVars>>
uiVars == <<sceneVars, appVars, staticVars>>
vars ==
  <<parseVars, keyedVars, loadVars, treeVars, tableVars, sortVars, procVars,
    navVars, uiVars>>

(***************************************************************************)
(* Inputs of the parsers: every definition of up to MaxSegs segments over  *)
(* Segs, and every definition of the catalog.                              *)
(***************************************************************************)
Segs ==
  {<<>>, <<"f">>, <<"=">>, <<"#">>, <<"0">>, <<"2">>, <<"=", "f">>}

SegSeqs == UNION {[1..n -> Segs] : n \in 1..MaxSegs}

CatalogDefs ==
  {STATS[i].def : i \in 1..NumStats} \cup {STATS[i].proc_def : i \in 1..NumStats}

ParseInputs == {Join(segs) : segs \in SegSeqs} \cup CatalogDefs

ParseIdle ==
  /\ def = <<>>
  /\ parser = "none"
  /\ processor = NoProcessor

KeyedIdle ==
  /\ file = NoFile
  /\ keyed = [match_col |-> 1, match_val |-> <<>>, ret_col |-> 1]
  /\ extractor = "none"
  /\ result = Err("none")

\* outcomes of get_stat in one directory, states of one directory, and the
\* filesystems walked: the root exists, and a directory has entries only if
\* it can be listed
StatOutcomes == {Ok(n) : n \in 0..MaxStat} \cup {Err("ValueNotFound")}

DirStates ==
  {[kind |-> "absent"], [kind |-> "unreadable"]}
    \cup {[kind |-> "dir", stat |-> o] : o \in StatOutcomes}

Parent(d) == SubSeq(d, 1, Len(d) - 1)

FSWellFormed(dir) ==
  /\ dir[<<>>].kind # "absent"
  /\ \A d \in Dirs \ {<<>>} :
       dir[d].kind # "absent" => dir[Parent(d)].kind = "dir"

ReadDirOrders == {<<"a", "b", "c">>, <<"b", "a", "c">>}

FSInputs ==
  {[dir |-> dir, order |-> o] :
     dir \in {x \in [Dirs -> DirStates] : FSWellFormed(x)}, o \in ReadDirOrders}

EmptyFS == [dir |-> [d \in Dirs |-> [kind |-> "absent"]], order |-> <<"a", "b", "c">>]

LoadIdle ==
  /\ load_stat = 0
  /\ load_fs = EmptyFS
  /\ load_sort = "NameAsc"
  /\ loaded = Err("none")

\* CGroupTree::default() and no operation yet
TreeFresh ==
  /\ cgroups = <<>>
  /\ tree_selected = <<>>
  /\ tree_opened = {}
  /\ single_root = FALSE
  /\ page_size = 0
  /\ tree_op = "none"
  /\ old_selected = None
  /\ old_opened = {}
  /\ old_selected_id = <<>>
  /\ old_opened_ids = {}
  /\ old_roots = 0

TreeIdle == TreeFresh /\ tree_loads = {}

SortIdle ==
  /\ sort_kind = "none"
  /\ sort_orders = [asc |-> "NameAsc", dsc |-> "NameDsc"]
  /\ sort_list = <<>>
  /\ sort_asc = <<>>
  /\ sort_dsc = <<>>

\* no key yet, and ProcsTable::default()
NavIdle ==
  /\ key_pressed = <<"none", "none">>
  /\ key_result = None
  /\ table_page_size = 0

\* ProcsScene::new (procs/mod.rs:42-57)
ProcsScene_new ==
  [cgroup |-> <<>>, sort |-> "CmdAsc", proc_sort |-> "CmdAsc", stat |-> 0,
   threads |-> FALSE, include_children |-> FALSE]

\* nothing drawn, loaded or handled yet
CtlHistNew ==
  [drawn |-> FALSE, reloads |-> 0, lister |-> None, list |-> <<>>,
   key |-> "none"]

\* the process scene as constructed, its controller not running
SceneIdle ==
  /\ procs_scene = ProcsScene_new
  /\ scene_result = None
  /\ ctl_scene = "CGroupTree"
  /\ ctl_pc = "idle"
  /\ ctl_reload = FALSE
  /\ ctl_actions = <<>>
  /\ ctl_hist = CtlHistNew

\* App::new (app/mod.rs:47-60), run not started
AppIdle ==
  /\ app_scene = "CGroupTree"
  /\ app_sort = "NameAsc"
  /\ app_tree_items = <<>>
  /\ app_tree_state = [selected |-> <<>>, opened |-> {}]
  /\ help_scroll = 0
  /\ next_refresh = 0
  /\ app_pc = "idle"
  /\ app_wait = None
  /\ app_reload = FALSE
  /\ app_result = "None"
  /\ now = 0
  /\ queue = <<>>
  /\ app_env = <<>>
  /\ app_event = "none"

\* StatChooseScene::new (stat_choose/mod.rs:23-28), nothing polled
ChooseIdle ==
  /\ choose_items = <<>>
  /\ choose_selected = None
  /\ choose_result = [type |-> "None"]

\* ProcsHelpScene::new (procs_help/mod.rs:21-23), no key handled
ProcsHelpIdle ==
  /\ procs_help_scroll = 0
  /\ procs_help_result = [type |-> "None"]

StaticIdle == ChooseIdle /\ ProcsHelpIdle

UiIdle == SceneIdle /\ AppIdle /\ StaticIdle

\* a call of a view that handles no key
NoKey ==
  /\ key_pressed' = <<"none", "none">>
  /\ key_result' = None

\* no call of load_procs in this run
ProcsIdle ==
  /\ lp_cgroup = [procs |-> NoFile, threads |-> NoFile, listable |-> TRUE,
                  children |-> <<>>]
  /\ lp_proc = <<>>
  /\ lp_include_children = FALSE
  /\ lp_threads = FALSE
  /\ lp_stat = 0
  /\ lp_sort = "PidAsc"
  /\ lp_loaded = Err("none")

\* ProcsTable::default() and no operation yet
TableFresh ==
  /\ procs = <<>>
  /\ table_items = <<>>
  /\ table_error = None
  /\ table_selected = None
  /\ table_op = "none"
  /\ old_selected_pid = None
  /\ old_selected_row = None
  /\ table_id_file = NoFile

TableIdle == TableFresh /\ table_loads = {}

ParseInit ==
  /\ def \in ParseInputs
  /\ parser = "none"
  /\ processor = NoProcessor
  /\ KeyedIdle
  /\ LoadIdle
  /\ TreeIdle
  /\ TableIdle
  /\ SortIdle
  /\ ProcsIdle
  /\ NavIdle
  /\ UiIdle

\* proc::load_procs compiles a process-side definition
CallGetFileProcessor ==
  /\ parser = "none"
  /\ processor' = get_file_processor(def)
  /\ parser' = "get_file_processor"
  /\ UNCHANGED <<def, keyedVars, loadVars, treeVars, tableVars, sortVars, procVars,
                 navVars, uiVars>>

\* cgroup::load_cgroups compiles a cgroup-side definition
CallGetStatProcessor ==
  /\ parser = "none"
  /\ processor' = get_stat_processor(def)
  /\ parser' = "get_stat_processor"
  /\ UNCHANGED <<def, keyedVars, loadVars, treeVars, tableVars, sortVars, procVars,
                 navVars, uiVars>>

\* cgroup::file_proc::get_stat_processor compiles catalog entry stat
CallFileProcGetStatProcessor ==
  /\ parser = "none"
  /\ \E stat \in 0..(NumStats - 1) :
       /\ def = STATS[stat + 1].def
       /\ processor' = file_proc_get_stat_processor(stat)
  /\ parser' = "file_proc_get_stat_processor"
  /\ UNCHANGED <<def, keyedVars, loadVars, treeVars, tableVars, sortVars, procVars,
                 navVars, uiVars>>

NextParse ==
  \/ CallGetFileProcessor
  \/ CallGetStatProcessor
  \/ CallFileProcGetStatProcessor

SpecParse == ParseInit /\ [][NextParse]_vars

(***************************************************************************)
(* C7 (as amended).  get_file_processor, splitting the definition on '/':  *)
(* Unrecognized when the first segment is empty; otherwise SingleValue     *)
(* with file = the definition when it is one segment, KeyedColumn when it  *)
(* has exactly five segments with seg1 = "=", both column indices parse to *)
(* integers >= 1 and seg3 is non-empty, LineCount when it has exactly two  *)
(* segments with seg1 = "#", and Unrecognized for every other string.      *)
(***************************************************************************)
IsKeyedShape(s) ==
  /\ Len(s) = 5
  /\ s[2] = <<"=">>
  /\ IsUsize(s[3]) /\ UsizeVal(s[3]) >= 1
  /\ IsUsize(s[5]) /\ UsizeVal(s[5]) >= 1
  /\ s[4] # <<>>

IsCountShape(s) == Len(s) = 2 /\ s[2] = <<"#">>

C7_ParserShapes ==
  parser = "get_file_processor" =>
    LET s == Split(def) IN
      processor =
        IF s[1] = <<>> THEN NoProcessor
        ELSE IF Len(s) = 1 THEN [kind |-> "SingleValue", file |-> def]
        ELSE IF IsKeyedShape(s)
          THEN [kind |-> "Keyed", file |-> s[1],
                match_col |-> UsizeVal(s[3]), match_val |-> s[4],
                ret_col |-> UsizeVal(s[5])]
        ELSE IF IsCountShape(s) THEN [kind |-> "Count", file |-> s[1]]
        ELSE NoProcessor

\* a five-segment keyed definition was compiled to a KeyedColumn extractor
C7_Witness ==
  /\ parser = "get_file_processor"
  /\ Len(Split(def)) = 5
  /\ processor.kind = "Keyed"
  /\ processor.match_col = 2
  /\ processor.ret_col = 2

\* C7 as stated: the keyed and line-count shapes are recognised whatever
\* the file segment is
C7_AsStated ==
  parser = "get_file_processor" =>
    LET s == Split(def) IN
      processor =
        IF Len(s) = 1 /\ s[1] # <<>> THEN [kind |-> "SingleValue", file |-> def]
        ELSE IF IsKeyedShape(s)
          THEN [kind |-> "Keyed", file |-> s[1],
                match_col |-> UsizeVal(s[3]), match_val |-> s[4],
                ret_col |-> UsizeVal(s[5])]
        ELSE IF IsCountShape(s) THEN [kind |-> "Count", file |-> s[1]]
        ELSE NoProcessor

(***************************************************************************)
(* C8.  Compiling a stat definition is total: whichever parser runs, on    *)
(* whichever definition, it returns an extractor or Unrecognized and never *)
(* panics.                                                                 *)
(***************************************************************************)
C8_ParserTotal == processor # Panicked

(***************************************************************************)
(* Running the keyed extractors on a pseudo-file.  Lines are built from    *)
(* up to MaxCols columns over Fields joined by one space; the empty line   *)
(* is a blank line.  The key looked for is "f"; "fm" extends it.           *)
(***************************************************************************)
Fields == {<<"f">>, <<"f", "m">>, <<"7">>}

RECURSIVE JoinSp(_)
JoinSp(cols) ==
  IF Len(cols) = 0 THEN <<>>
  ELSE IF Len(cols) = 1 THEN cols[1]
  ELSE cols[1] \o <<" ">> \o JoinSp(Tail(cols))

LineInputs == {JoinSp(cols) : cols \in UNION {[1..n -> Fields] : n \in 0..MaxCols}}

FileInputs ==
  {NoFile} \cup {FileOf(ls) : ls \in UNION {[1..n -> LineInputs] : n \in 0..MaxLines}}

KeyedInputs ==
  [match_col : 1..MaxCols, match_val : {<<"f">>}, ret_col : 1..MaxCols]

KeyedInit ==
  /\ file \in FileInputs
  /\ keyed \in KeyedInputs
  /\ extractor = "none"
  /\ result = Err("none")
  /\ ParseIdle
  /\ LoadIdle
  /\ TreeIdle
  /\ TableIdle
  /\ SortIdle
  /\ ProcsIdle
  /\ NavIdle
  /\ UiIdle

\* the process-side extractor compiled from file/=/match_col/match_val/ret_col
CallKeyedGetValue ==
  /\ extractor = "none"
  /\ result' = KeyedProcessor_get_value(keyed, file)
  /\ extractor' = "file_proc"
  /\ UNCHANGED <<file, keyed, parseVars, loadVars, treeVars, tableVars, sortVars, procVars,
                 navVars, uiVars>>

\* the cgroup-side extractor compiled from file/=match_string/ret_col, which
\* always matches on the first column
CallCGroupKeyedGetStat ==
  /\ extractor = "none"
  /\ keyed.match_col = 1
  /\ result' = CGroupKeyedProcessor_get_stat(
                  [match_string |-> keyed.match_val, ret_col |-> keyed.ret_col], file)
  /\ extractor' = "cgroup"
  /\ UNCHANGED <<file, keyed, parseVars, loadVars, treeVars, tableVars, sortVars, procVars,
                 navVars, uiVars>>

NextKeyed ==
  \/ CallKeyedGetValue
  \/ CallCGroupKeyedGetStat

SpecKeyed == KeyedInit /\ [][NextKeyed]_vars

\* the columns of line i of the file, and whether its match column holds
\* exactly the match value
ColumnsOf(i) == SplitWhitespace(file.lines[i])
ExactMatch(i) ==
  /\ Len(ColumnsOf(i)) >= keyed.match_col
  /\ ColumnsOf(i)[keyed.match_col] = keyed.match_val
MatchingLines == {i \in 1..Len(file.lines) : ExactMatch(i)}
FirstMatch == CHOOSE i \in MatchingLines : \A j \in MatchingLines : i <= j

(***************************************************************************)
(* C9.  KeyedColumn get_value returns the result-column field of the first *)
(* line, in file order, whose match-column field equals the match value (a *)
(* line that has exactly match-column fields is eligible); ValueNotFound   *)
(* if no line matches or that line has fewer fields than the result column.*)
(***************************************************************************)
C9_KeyedFirstMatch ==
  (extractor = "file_proc" /\ file.exists) =>
    result =
      IF MatchingLines = {} THEN Err("ValueNotFound")
      ELSE IF Len(ColumnsOf(FirstMatch)) < keyed.ret_col THEN Err("ValueNotFound")
      ELSE Ok(ColumnsOf(FirstMatch)[keyed.ret_col])

(***************************************************************************)
(* C10.  Keyed matching is exact string equality on the match column,      *)
(* never prefix matching, and a line with fewer columns than the match     *)
(* column (a blank line included) is skipped without an error or a panic,  *)
(* for the process-side and the cgroup-side extractor: no run panics, and  *)
(* a run over a file none of whose lines holds exactly the match value in  *)
(* the match column finds no value.                                        *)
(***************************************************************************)
C10_KeyedExactMatch ==
  (extractor # "none" /\ file.exists) =>
    /\ result # Panic
    /\ MatchingLines = {} => result = Err("ValueNotFound")

(***************************************************************************)
(* One call of load_cgroups on a filesystem of FSInputs.                   *)
(***************************************************************************)
LoadInit ==
  /\ load_stat \in 0..(NumStats - 1)
  /\ load_fs \in FSInputs
  /\ load_sort \in SortOrders
  /\ loaded = Err("none")
  /\ ParseIdle
  /\ KeyedIdle
  /\ TreeIdle
  /\ TableIdle
  /\ SortIdle
  /\ ProcsIdle
  /\ NavIdle
  /\ UiIdle

CallLoadCGroups ==
  /\ loaded = Err("none")
  /\ loaded' = load_cgroups(STATS[load_stat + 1].def, load_fs, load_sort)
  /\ UNCHANGED <<load_stat, load_fs, load_sort, parseVars, keyedVars, treeVars,
                  tableVars, sortVars, procVars,
                 navVars, uiVars>>

NextLoad == CallLoadCGroups

SpecLoad == LoadInit /\ [][NextLoad]_vars

\* every node of a list of trees
RECURSIVE NodesOf(_)
NodesOf(list) ==
  UNION {{list[i]} \cup NodesOf(list[i].children) : i \in 1..Len(list)}

IsSelf(n) == n.path # <<>> /\ n.path[Len(n.path)] = SelfName
RealChildren(n) == SelectSeq(n.children, LAMBDA c : ~IsSelf(c))
SelfChildren(n) == SelectSeq(n.children, IsSelf)

LoadedNodes == IF loaded.tag = "Ok" THEN NodesOf(loaded.value) ELSE {}
LoadedStatType == STATS[load_stat + 1].stype

(***************************************************************************)
(* C1 (as amended).  In a tree loaded for a cumulative statistic, for      *)
(* every node with at least one child: a <self> child is present iff the   *)
(* sum of the real children's values is strictly less than the node's own *)
(* value; node.stat equals the sum of its children's values (self node     *)
(* included) when the real children's sum does not exceed node.stat, and   *)
(* is smaller than that sum when it does.                                  *)
(***************************************************************************)
C1_CumulativeAggregation ==
  LoadedStatType = "MemQtyCumul" =>
    \A n \in LoadedNodes :
      n.children # <<>> =>
        /\ (SelfChildren(n) # <<>>) <=> (SumStat(RealChildren(n)) < n.stat)
        /\ SumStat(RealChildren(n)) <= n.stat => n.stat = SumStat(n.children)
        /\ SumStat(RealChildren(n)) > n.stat => n.stat < SumStat(n.children)

\* a loaded node got a <self> child next to a real child that itself has
\* children, and another loaded node's children exceed its own value
C1_Witness ==
  /\ LoadedStatType = "MemQtyCumul"
  /\ \E n \in LoadedNodes :
       /\ SelfChildren(n) # <<>>
       /\ \E i \in 1..Len(n.children) : n.children[i].children # <<>>
  /\ \E n \in LoadedNodes :
       n.children # <<>> /\ SumStat(RealChildren(n)) > n.stat

\* C1 as stated: node.stat >= the sum of its children's values, always
C1_AsStated ==
  LoadedStatType = "MemQtyCumul" =>
    \A n \in LoadedNodes :
      n.children # <<>> =>
        /\ n.stat >= SumStat(n.children)
        /\ (SelfChildren(n) # <<>>) <=> (SumStat(RealChildren(n)) < n.stat)

(***************************************************************************)
(* C2.  Loading under a non-cumulative statistic (StatType::Qty) yields a  *)
(* tree in which every directory's node has stat = its own value + the sum *)
(* of its children's values, and has a self node equal to its own value    *)
(* iff its own value is > 0 and the children's sum is positive.            *)
(***************************************************************************)
OwnValue(n) ==
  LET got == load_fs.dir[n.path].stat
  IN IF got.tag = "Ok" THEN got.value ELSE 0

C2_QuantityAggregation ==
  (loaded # Err("none") /\ LoadedStatType = "Qty") =>
    /\ loaded.tag = "Ok"
    /\ \A n \in LoadedNodes :
         (~IsSelf(n) /\ load_fs.dir[n.path].kind = "dir") =>
           /\ n.stat = OwnValue(n) + SumStat(RealChildren(n))
           /\ (\E i \in 1..Len(n.children) :
                  IsSelf(n.children[i]) /\ n.children[i].stat = OwnValue(n))
                <=> (OwnValue(n) > 0 /\ SumStat(RealChildren(n)) > 0)

(***************************************************************************)
(* The tree view: build_tree on filesystems of TreeFSInputs, the keys and  *)
(* render.  A panic ends the program: tree_op = "panic" has no successor.  *)
(***************************************************************************)
MaxHeight == 3

\* statistic 0 is "memory.current"; the definition of statistic 2 has five
\* segments
TreeStats == {0, 2}

TreeDirStates(d) ==
  IF d = <<>> THEN {[kind |-> "dir", stat |-> Ok(0)], [kind |-> "dir", stat |-> Ok(1)]}
  ELSE {[kind |-> "absent"], [kind |-> "dir", stat |-> Ok(1)]}

TreeFSInputs ==
  {[dir |-> dir, order |-> <<"a", "b", "c">>] :
     dir \in {x \in [Dirs -> UNION {TreeDirStates(d) : d \in Dirs}] :
                /\ FSWellFormed(x)
                /\ \A d \in Dirs : x[d] \in TreeDirStates(d)}}

\* what load_cgroups can return to build_tree
TreeLoads ==
  {load_cgroups(STATS[stat + 1].def, fs, sort) :
     stat \in TreeStats, fs \in TreeFSInputs, sort \in SortOrders}

\* CGroupTree::default(), as TreeIdle, and the filesystems of this run
TreeInit ==
  /\ cgroups = <<>>
  /\ tree_selected = <<>>
  /\ tree_opened = {}
  /\ single_root = FALSE
  /\ page_size = 0
  /\ tree_op = "none"
  /\ old_selected = None
  /\ old_opened = {}
  /\ old_selected_id = <<>>
  /\ old_opened_ids = {}
  /\ old_roots = 0
  /\ tree_loads = TreeLoads
  /\ ParseIdle
  /\ KeyedIdle
  /\ LoadIdle
  /\ TableIdle
  /\ SortIdle
  /\ ProcsIdle
  /\ NavIdle
  /\ UiIdle

\* the history of a key or a render: nothing was rebuilt
TreeHistReset(op) ==
  /\ tree_op' = op
  /\ old_selected' = None
  /\ old_opened' = {}
  /\ old_selected_id' = <<>>
  /\ old_opened_ids' = {}
  /\ old_roots' = 0

TreeOther ==
  UNCHANGED <<parseVars, keyedVars, loadVars, tableVars, sortVars, procVars, uiVars,
              tree_loads>>

\* tree.rs:25-68
BuildTree ==
  /\ tree_op # "panic"
  /\ \E new_cgroups \in tree_loads :
       LET sel_cg == cgroup_from_selected(cgroups, tree_selected)
           open_cgs == {cgroup_from_selected(cgroups, o) : o \in tree_opened}
       IN IF sel_cg = Panic \/ Panic \in open_cgs \/ new_cgroups = Panic
            THEN /\ tree_op' = "panic"
                 /\ UNCHANGED <<treeState, old_selected, old_opened,
                                old_selected_id, old_opened_ids, old_roots>>
            ELSE
              LET old_sel == IF sel_cg.value = None THEN None
                             ELSE Some(sel_cg.value[1].path)
                  old_open == {c.value[1].path :
                                 c \in {x \in open_cgs : x.value # None}}
                  level == build_tree_level(new_cgroups.value, old_sel,
                                            old_open, <<>>)
                  expand == ExpandSingleRoot(Len(new_cgroups.value),
                                             single_root, level.opened)
              IN /\ cgroups' = new_cgroups.value
                 /\ tree_selected' = IF level.select # None
                                       THEN level.select[1] ELSE <<>>
                 /\ tree_opened' = expand.opened
                 /\ single_root' = expand.single_root
                 /\ tree_op' = "build_tree"
                 /\ old_selected' = old_sel
                 /\ old_opened' = old_open
                 /\ old_selected_id' = tree_selected
                 /\ old_opened_ids' = tree_opened
                 /\ old_roots' = Len(cgroups)
                 /\ UNCHANGED page_size
  /\ NoKey
  /\ UNCHANGED table_page_size
  /\ TreeOther

\* tree.rs:151-166
Render ==
  /\ tree_op # "panic"
  /\ \E height \in 0..MaxHeight : page_size' = Max(2, height) - 1
  /\ TreeHistReset("render")
  /\ NoKey
  /\ UNCHANGED table_page_size
  /\ UNCHANGED <<cgroups, tree_selected, tree_opened, single_root>>
  /\ TreeOther

\* the keys of the tree view
TreeKeys ==
  {"down", "up", "pg_down", "pg_up", "left", "right", "first", "last",
   "close_all"}

\* tree.rs:198-245: the selection and the open nodes after the key, and the
\* PollResult of the method
tree_key(key) ==
  LET visible == flatten(tree_opened, cgroups, <<>>)
      move(amount, no_pos) ==
        LET moved == move_by(visible, tree_selected, amount, no_pos)
        IN [selected |-> moved.selected, opened |-> tree_opened,
            result |-> moved.result]
      redraw(sel, opn) ==
        [selected |-> sel, opened |-> opn, result |-> Some(<<>>)]
  IN CASE key = "down" -> move(1, -1)
       [] key = "up" -> move(-1, page_size + 1)
       [] key = "pg_down" -> move(page_size, 0)
       [] key = "pg_up" -> move(-page_size, page_size)
       [] key = "left" ->
            redraw(key_left(tree_selected, tree_opened).selected,
                   key_left(tree_selected, tree_opened).opened)
       [] key = "right" ->
            redraw(tree_selected, key_right(tree_selected, tree_opened))
       [] key = "first" -> redraw(select_first(cgroups), tree_opened)
       [] key = "last" ->
            redraw(select_last(tree_opened, cgroups), tree_opened)
       [] key = "close_all" -> redraw(tree_selected, {})

TreeKey(after) ==
  /\ tree_op # "panic"
  /\ tree_selected' = after.selected
  /\ tree_opened' = after.opened
  /\ TreeHistReset("key")
  /\ UNCHANGED <<cgroups, single_root, page_size>>
  /\ TreeOther

\* tree.rs:210-227
Down == TreeKey(tree_key("down")) /\ UNCHANGED navVars
Up == TreeKey(tree_key("up")) /\ UNCHANGED navVars
PgDown == TreeKey(tree_key("pg_down")) /\ UNCHANGED navVars
PgUp == TreeKey(tree_key("pg_up")) /\ UNCHANGED navVars

\* tree.rs:198-207
Left == TreeKey(tree_key("left")) /\ UNCHANGED navVars
Right == TreeKey(tree_key("right")) /\ UNCHANGED navVars

\* tree.rs:230-245
First == TreeKey(tree_key("first")) /\ UNCHANGED navVars
Last == TreeKey(tree_key("last")) /\ UNCHANGED navVars
CloseAll == TreeKey(tree_key("close_all")) /\ UNCHANGED navVars

NextTree ==
  \/ BuildTree
  \/ Render
  \/ Down
  \/ Up
  \/ PgDown
  \/ PgUp
  \/ Left
  \/ Right
  \/ First
  \/ Last
  \/ CloseAll

SpecTree == TreeInit /\ [][NextTree]_vars

\* the identifiers of the nodes of a tree and the node an identifier names
RECURSIVE IdsUnder(_, _)
IdsUnder(cgs, prefix) ==
  UNION {{Append(prefix, i - 1)}
           \cup IdsUnder(cgs[i].children, Append(prefix, i - 1)) :
         i \in 1..Len(cgs)}

RECURSIVE NodeAt(_, _)
NodeAt(cgs, id) ==
  IF Len(id) = 1 THEN cgs[id[1] + 1]
  ELSE NodeAt(cgs[id[1] + 1].children, Tail(id))

TreeIds == IdsUnder(cgroups, <<>>)
TreePaths == {NodeAt(cgroups, id).path : id \in TreeIds}

\* C3: after build_tree the selection is the identifier of the node whose
\* path was selected before, if the new tree has such a node; it is empty if
\* the new tree has no such node or if nothing was selected before.
C3_SelectionReconciled ==
  tree_op = "build_tree" =>
    /\ (old_selected # None /\ old_selected[1] \in TreePaths) =>
         /\ tree_selected \in TreeIds
         /\ NodeAt(cgroups, tree_selected).path = old_selected[1]
    /\ (old_selected # None /\ old_selected[1] \notin TreePaths) =>
         tree_selected = <<>>
    /\ old_selected = None => tree_selected = <<>>

\* a rebuild after which the selected path sits at another identifier
C3_Witness ==
  /\ tree_op = "build_tree"
  /\ old_selected # None
  /\ tree_selected # <<>>
  /\ tree_selected # old_selected_id

\* C4: after build_tree every node whose path was expanded before is
\* expanded at its new identifier, and every expanded identifier names a
\* node whose path was expanded before, except the forced expansion of a
\* single root.
C4_ExpansionReconciled ==
  tree_op = "build_tree" =>
    /\ \A id \in TreeIds :
         NodeAt(cgroups, id).path \in old_opened => id \in tree_opened
    /\ \A id \in tree_opened :
         /\ id \in TreeIds
         /\ \/ NodeAt(cgroups, id).path \in old_opened
            \/ id = <<0>> /\ Len(cgroups) = 1

\* a and a/c were expanded, and a is expanded at another identifier now
C4_Witness ==
  /\ tree_op = "build_tree"
  /\ {<<"a">>, <<"a", "c">>} \subseteq old_opened
  /\ \E id \in tree_opened \ old_opened_ids :
       NodeAt(cgroups, id).path = <<"a">>
  /\ \E id \in tree_opened : NodeAt(cgroups, id).path = <<"a", "c">>

\* C5: a build that yields one root when the build before did not (or there
\* was none) expands that root; a build that yields one root after a build
\* that yielded one root expands it only if its path was expanded before;
\* the rule is armed exactly when the last build did not yield one root.
C5_SingleRootOnce ==
  tree_op = "build_tree" =>
    /\ (Len(cgroups) = 1 /\ old_roots # 1) => <<0>> \in tree_opened
    /\ (Len(cgroups) = 1 /\ old_roots = 1) =>
         (<<0>> \in tree_opened <=> cgroups[1].path \in old_opened)
    /\ single_root = (Len(cgroups) = 1)

\* a single root the user collapsed stays collapsed across a reload
C5_Witness ==
  /\ tree_op = "build_tree"
  /\ Len(cgroups) = 1
  /\ old_roots = 1
  /\ <<0>> \notin tree_opened
  /\ cgroups[1].children # <<>>

(***************************************************************************)
(* The process table: build_table on a cgroup directory of CGroupDirs and  *)
(* a /proc of ProcFSInputs, and the keys.                                  *)
(***************************************************************************)
MaxProcs == 2

PidLines == {<<"1", "2">>, <<"3", "4">>, <<"5">>}
Pids == {UsizeVal(l) : l \in PidLines}

\* the text of a file of the lines ls, each ended by a line feed
RECURSIVE TextOf(_)
TextOf(ls) ==
  IF ls = <<>> THEN <<>> ELSE Head(ls) \o <<"LF">> \o TextOf(Tail(ls))

\* the id lists without a repeated id
PidLists ==
  {ls \in UNION {[1..n -> PidLines] : n \in 0..MaxProcs} :
     \A i, j \in 1..Len(ls) : ls[i] = ls[j] => i = j}

\* an id file: missing, with a line that is no number (alone or after an
\* id), with a line that cannot be read, or a list of ids
IdFiles ==
  {NoFile, FileText(<<"x", "LF">>), FileText(<<"1", "2", "LF", "x", "LF">>),
   FileOf(<<Err("IoError")>>)}
    \cup {FileText(TextOf(ls)) : ls \in PidLists}

LeafDir(f) ==
  [procs |-> f, threads |-> f, listable |-> TRUE, children |-> <<>>]

\* a child with the id 5
ChildOk == LeafDir(FileText(<<"5", "LF">>))

\* a child whose id file is missing, above a grandchild with the id 5
ChildFailing ==
  [procs |-> NoFile, threads |-> NoFile, listable |-> TRUE,
   children |-> <<ChildOk>>]

\* a child with the id 5 that cannot be listed
ChildUnlistable ==
  [procs |-> FileText(<<"5", "LF">>), threads |-> FileText(<<"5", "LF">>),
   listable |-> FALSE, children |-> <<>>]

ChildDirs ==
  {<<>>, <<ChildOk>>, <<ChildFailing>>, <<ChildFailing, ChildOk>>,
   <<ChildUnlistable>>}

\* the thread ids of the directories are the one thread of process 34
ThreadsFile == FileText(<<"3", "4", "LF">>)

CGroupDirs ==
  {[procs |-> f, threads |-> ThreadsFile, listable |-> l, children |-> c] :
     f \in IdFiles, l \in BOOLEAN, c \in ChildDirs}
    \cup {[procs |-> FileText(<<"1", "2", "LF", "3", "4", "LF">>),
           threads |-> t, listable |-> TRUE, children |-> <<>>] :
            t \in {NoFile, FileText(<<"x", "LF">>)}}

\* a process with a command line, two with only a comm (the command line
\* missing, and the empty one of a kernel thread) and one that is gone
ProcWithCmdline ==
  [cmdline |-> FileText(<<"f", "o", "o", "NUL", "b", "a", "r", "NUL">>),
   comm |-> FileText(<<"f", "o", "o", "LF">>), value |-> Ok(1)]

ProcWithComm ==
  [cmdline |-> NoFile, comm |-> FileText(<<"b", "a", "s", "h", "LF">>),
   value |-> Ok(0)]

ProcKernelThread ==
  [cmdline |-> FileText(<<>>), comm |-> FileText(<<"s", "h", "LF">>),
   value |-> Ok(0)]

ProcGone ==
  [cmdline |-> FileOf(<<Err("IoError")>>), comm |-> NoFile,
   value |-> Err("ValueNotFound")]

ProcFSInputs ==
  {[p \in Pids |-> CASE p = 12 -> ProcWithCmdline [] p = 34 -> ProcWithComm
                     [] OTHER -> ProcGone],
   [p \in Pids |-> CASE p = 12 -> ProcGone [] p = 34 -> ProcKernelThread
                     [] OTHER -> ProcWithCmdline]}

\* statistic 0 has a process-side definition, statistic 1 has none
TableStats == {0, 1}

\* the directories build_table is run on
TableCGroupDirs ==
  {cg \in CGroupDirs : cg.listable /\ Len(cg.children) <= 1}

\* what load_procs can return to build_table, with the id file it opened
TableLoads ==
  {[id_file |-> IdFile(cg, threads),
    result |-> load_procs(cg, proc, include_children, threads, stat, sort)] :
     cg \in TableCGroupDirs, proc \in ProcFSInputs,
     include_children \in BOOLEAN, threads \in BOOLEAN, stat \in TableStats,
     sort \in ProcSortOrders}

\* ProcsTable::default(), as TableIdle, and the process lists of this run
TableInit ==
  /\ procs = <<>>
  /\ table_items = <<>>
  /\ table_error = None
  /\ table_selected = None
  /\ table_op = "none"
  /\ old_selected_pid = None
  /\ old_selected_row = None
  /\ table_id_file = NoFile
  /\ table_loads = TableLoads
  /\ ParseIdle
  /\ KeyedIdle
  /\ LoadIdle
  /\ TreeIdle
  /\ SortIdle
  /\ ProcsIdle
  /\ NavIdle
  /\ UiIdle

TableHistReset(op) ==
  /\ table_op' = op
  /\ old_selected_pid' = None
  /\ old_selected_row' = None
  /\ UNCHANGED table_id_file

TableOther ==
  UNCHANGED <<parseVars, keyedVars, loadVars, treeVars, sortVars, procVars, uiVars,
              table_loads>>

\* table.rs:67-190 leaving the body without rows
build_table_cells_no_body(rows) == <<>>

\* table.rs:158-185: one row of cells for each process
build_table_cells(rows) ==
  [i \in 1..Len(rows) |-> [pid |-> rows[i].pid, cmd |-> rows[i].cmd]]

\* table.rs:31-65; procs[i] panics when the selected row is out of range
build_table(load) ==
  LET new_procs == load.result IN
  IF \/ new_procs = Panic
     \/ table_selected # None /\ table_selected[1] >= Len(procs)
    THEN /\ table_op' = "panic"
         /\ UNCHANGED <<procs, table_items, table_error, table_selected,
                        old_selected_pid, old_selected_row, table_id_file>>
    ELSE
      LET old_pid == IF table_selected # None
                       THEN Some(procs[table_selected[1] + 1].pid)
                     ELSE None
          rows == IF new_procs.tag = "Ok" THEN new_procs.value ELSE <<>>
      IN /\ procs' = rows
         /\ table_items' = build_table_cells(rows)
         /\ table_error' = IF new_procs.tag = "Ok" THEN None
                           ELSE Some(new_procs.error)
         /\ table_selected' = Reselect(rows, old_pid)
         /\ table_op' = "build_table"
         /\ old_selected_pid' = old_pid
         /\ old_selected_row' = table_selected
         /\ table_id_file' = load.id_file

BuildTable ==
  /\ table_op # "panic"
  /\ \E load \in table_loads : build_table(load)
  /\ NoKey
  /\ UNCHANGED table_page_size
  /\ TableOther

\* the keys of the process table
TableKeys == {"up", "down", "pgup", "pgdown", "home", "end"}

\* table.rs:227-254: the row selected after the key and the PollResult; items
\* has one row for each element of procs
table_key(key) ==
  CASE key = "up" -> table_move_by(Len(table_items), table_selected, -1)
    [] key = "down" -> table_move_by(Len(table_items), table_selected, 1)
    [] key = "pgup" ->
         table_move_by(Len(table_items), table_selected, -table_page_size)
    [] key = "pgdown" ->
         table_move_by(Len(table_items), table_selected, table_page_size)
    [] key = "home" -> move_to(Len(table_items), table_selected, 1)
    [] key = "end" -> move_to(Len(table_items), table_selected, -1)

TableKey(moved) ==
  /\ table_op # "panic"
  /\ table_selected' = moved.selected
  /\ TableHistReset("key")
  /\ UNCHANGED <<procs, table_items, table_error>>
  /\ TableOther

TableUp == TableKey(table_key("up")) /\ UNCHANGED navVars
TableDown == TableKey(table_key("down")) /\ UNCHANGED navVars
TableHome == TableKey(table_key("home")) /\ UNCHANGED navVars
TableEnd == TableKey(table_key("end")) /\ UNCHANGED navVars

\* table.rs:313-315
TableReset ==
  /\ table_op # "panic"
  /\ table_selected' = None
  /\ TableHistReset("key")
  /\ UNCHANGED <<procs, table_items, table_error, navVars>>
  /\ TableOther

NextTable ==
  \/ BuildTable
  \/ TableUp
  \/ TableDown
  \/ TableHome
  \/ TableEnd
  \/ TableReset

SpecTable == TableInit /\ [][NextTable]_vars

RowsOfPid(pid) == {i \in 1..Len(procs) : procs[i].pid = pid}

\* C6: after build_table the selected row is the first row holding the pid
\* selected before; no row is selected if that pid is not listed, if the
\* load failed, or if nothing was selected before.
C6_TableSelectionByPid ==
  table_op = "build_table" =>
    /\ old_selected_pid = None => table_selected = None
    /\ table_error # None => table_selected = None
    /\ (old_selected_pid # None /\ RowsOfPid(old_selected_pid[1]) = {}) =>
         table_selected = None
    /\ (old_selected_pid # None /\ RowsOfPid(old_selected_pid[1]) # {}) =>
         /\ table_selected # None
         /\ table_selected[1] + 1 \in RowsOfPid(old_selected_pid[1])
         /\ \A i \in RowsOfPid(old_selected_pid[1]) : table_selected[1] + 1 <= i

\* a rebuild after which the selected pid sits in another row
C6_Witness ==
  /\ table_op = "build_table"
  /\ old_selected_row # None
  /\ table_selected # None
  /\ table_selected # old_selected_row

(***************************************************************************)
(* One call of a single-value or line-count extractor, directly or through *)
(* get_stat, on a pseudo-file of ExtractFiles.                             *)
(***************************************************************************)
ExtractLines ==
  {Ok(<<>>), Ok(<<"7">>), Ok(<<"+", "7">>), Ok(<<"4", "2">>), Ok(<<"f">>),
   Ok(<<"7", " ">>), Err("IoError")}

ExtractFiles ==
  {NoFile}
    \cup {FileOf(ls) : ls \in UNION {[1..n -> ExtractLines] : n \in 0..MaxLines}}

ExtractInit ==
  /\ file \in ExtractFiles
  /\ keyed = [match_col |-> 1, match_val |-> <<>>, ret_col |-> 1]
  /\ extractor = "none"
  /\ result = Err("none")
  /\ ParseIdle
  /\ LoadIdle
  /\ TreeIdle
  /\ TableIdle
  /\ SortIdle
  /\ ProcsIdle
  /\ NavIdle
  /\ UiIdle

ExtractCall(name, value) ==
  /\ extractor = "none"
  /\ result' = value
  /\ extractor' = name
  /\ UNCHANGED <<file, keyed, parseVars, loadVars, treeVars, tableVars, sortVars, procVars,
                 navVars, uiVars>>

CallSingleValueGetValue ==
  ExtractCall("single_value.get_value", SingleValueProcessor_get_value(file))

CallSingleValueGetStat ==
  ExtractCall("single_value.get_stat",
              FileProcessor_get_stat(SingleValueProcessor_get_value(file)))

CallCountGetValue ==
  ExtractCall("count.get_value", CountProcessor_get_value(file))

CallCountGetStat ==
  ExtractCall("count.get_stat",
              FileProcessor_get_stat(CountProcessor_get_value(file)))

NextExtract ==
  \/ CallSingleValueGetValue
  \/ CallSingleValueGetStat
  \/ CallCountGetValue
  \/ CallCountGetStat

SpecExtract == ExtractInit /\ [][NextExtract]_vars

\* the first line can be read
FirstLineRead == file.exists /\ file.lines # <<>> /\ file.lines[1].tag = "Ok"

(***************************************************************************)
(* C11.  SingleValue get_value returns IoError exactly when the file       *)
(* cannot be opened or its first line cannot be read, ValueNotFound        *)
(* exactly when the file has no lines, and the first line otherwise;       *)
(* LineCount fails exactly when the file cannot be opened, with IoError;   *)
(* get_stat returns ParseError exactly when the extraction succeeded with  *)
(* a string that is not an unsigned integer, the number when it is one,    *)
(* and the extraction's own error otherwise.                               *)
(***************************************************************************)
C11_ExtractorErrors ==
  /\ extractor = "single_value.get_value" =>
       /\ result = Err("IoError") <=>
            (~file.exists \/ (file.lines # <<>> /\ file.lines[1].tag = "Err"))
       /\ result = Err("ValueNotFound") <=> (file.exists /\ file.lines = <<>>)
       /\ FirstLineRead => result = Ok(file.lines[1].value)
  /\ extractor = "count.get_value" =>
       /\ result.tag = "Err" <=> ~file.exists
       /\ result.tag = "Err" => result = Err("IoError")
       /\ file.exists => /\ IsUsize(result.value)
                          /\ UsizeVal(result.value) = Len(file.lines)
  /\ extractor = "single_value.get_stat" =>
       /\ result = Err("ParseError") <=>
            (FirstLineRead /\ ~IsUsize(file.lines[1].value))
       /\ (FirstLineRead /\ IsUsize(file.lines[1].value)) =>
            result = Ok(UsizeVal(file.lines[1].value))
       /\ ~FirstLineRead =>
            result = IF file.exists /\ file.lines = <<>>
                       THEN Err("ValueNotFound") ELSE Err("IoError")
  /\ extractor = "count.get_stat" =>
       result = IF file.exists THEN Ok(Len(file.lines)) ELSE Err("IoError")

\* the first line was read and is not a number
C11_Witness ==
  /\ extractor = "single_value.get_stat"
  /\ FirstLineRead
  /\ file.lines[1].value = <<"7", " ">>
  /\ result = Err("ParseError")

(***************************************************************************)
(* What load_cgroups returns for a filesystem, read off the filesystem.    *)
(***************************************************************************)
Returned == loaded.tag = "Ok"
RootDir == load_fs.dir[<<>>]
RootUnreadable == RootDir.kind = "unreadable"
RootError == RootDir.kind = "dir" /\ RootDir.stat.tag = "Err"
TopDirs == {d \in Dirs : Len(d) = 1 /\ load_fs.dir[d].kind # "absent"}
NodesAt(d) == {n \in LoadedNodes : n.path = d}

(***************************************************************************)
(* C12.  load_cgroups returns the root's children in place of the root if  *)
(* the root carries an error and has at least one child, and exactly one   *)
(* root node in every other case; the result is never empty.               *)
(***************************************************************************)
C12_TopLevelResult ==
  Returned =>
    /\ loaded.value # <<>>
    /\ (RootError /\ TopDirs # {}) =>
         \A i \in 1..Len(loaded.value) : Len(loaded.value[i].path) = 1
    /\ ~(RootError /\ TopDirs # {}) =>
         Len(loaded.value) = 1 /\ loaded.value[1].path = <<>>

(***************************************************************************)
(* C13.  load_cgroups always returns a list and never panics; a            *)
(* subdirectory that cannot be listed yields exactly one error leaf (error *)
(* set, stat 0, no children) among its siblings, every other existing      *)
(* subdirectory yields exactly one node, and a root that cannot be listed  *)
(* yields a single error node with the empty path.                         *)
(***************************************************************************)
C13_DirFailuresLocal ==
  loaded # Err("none") =>
    /\ Returned
    /\ RootUnreadable =>
         /\ Len(loaded.value) = 1
         /\ loaded.value[1].path = <<>>
         /\ loaded.value[1].error # None
         /\ loaded.value[1].children = <<>>
    /\ \A d \in Dirs \ {<<>>} :
         /\ load_fs.dir[d].kind # "absent" => Cardinality(NodesAt(d)) = 1
         /\ load_fs.dir[d].kind = "unreadable" =>
              \A n \in NodesAt(d) :
                n.error # None /\ n.stat = 0 /\ n.children = <<>>

(***************************************************************************)
(* C14.  In every loaded tree a node that carries an error message has     *)
(* stat 0, so it is ordered as 0 among its siblings under the sorts by     *)
(* stat; a subdirectory that cannot be listed or whose statistic cannot be *)
(* read is present in the tree with a message.                             *)
(***************************************************************************)
C14_ErrorNodesZero ==
  Returned =>
    /\ \A n \in LoadedNodes : n.error # None => n.stat = 0
    /\ \A d \in Dirs \ {<<>>} :
         (\/ load_fs.dir[d].kind = "unreadable"
          \/ load_fs.dir[d].kind = "dir" /\ load_fs.dir[d].stat.tag = "Err") =>
           \E n \in NodesAt(d) : n.error # None
    /\ \A n \in LoadedNodes :
         \A i, j \in 1..Len(n.children) :
           (n.children[i].error # None /\ n.children[j].stat > 0) =>
             /\ load_sort = "SizeAsc" => i < j
             /\ load_sort = "SizeDsc" => j < i

\* an unreadable directory next to a sibling with a positive value, under a
\* sort by stat
C14_Witness ==
  /\ Returned
  /\ load_sort = "SizeAsc"
  /\ load_fs.dir[<<"b">>].kind = "unreadable"
  /\ \E n \in NodesAt(<<"a">>) : n.stat > 0 /\ n.children # <<>>
  /\ \E n \in NodesAt(<<"b">>) : n.error # None

(***************************************************************************)
(* C16.  Loading a root with readable own value V > 0 and one or more      *)
(* child directories, none with subdirectories, with readable values whose *)
(* sum S is below V returns a single root of stat V whose children are     *)
(* exactly the child nodes and one self node of value V - S; under         *)
(* SizeDsc the children are in non-increasing order of stat.               *)
(***************************************************************************)
TopValue(d) == load_fs.dir[d].stat.value

RECURSIVE SumTop(_)
SumTop(S) ==
  IF S = {} THEN 0
  ELSE LET d == CHOOSE x \in S : TRUE IN TopValue(d) + SumTop(S \ {d})

TopSum == SumTop(TopDirs)

C16_Scenario ==
  /\ RootDir.kind = "dir"
  /\ RootDir.stat.tag = "Ok"
  /\ RootDir.stat.value > 0
  /\ TopDirs # {}
  /\ \A d \in TopDirs :
       load_fs.dir[d].kind = "dir" /\ load_fs.dir[d].stat.tag = "Ok"
  /\ \A d \in Dirs : Len(d) > 1 => load_fs.dir[d].kind = "absent"
  /\ TopSum < RootDir.stat.value

C16_EndToEndTree ==
  (Returned /\ C16_Scenario) =>
    /\ Len(loaded.value) = 1
    /\ LET root == loaded.value[1] IN
         /\ root.path = <<>>
         /\ root.error = None
         /\ root.stat = RootDir.stat.value
         /\ Len(root.children) = Cardinality(TopDirs) + 1
         /\ {root.children[i] : i \in 1..Len(root.children)} =
              {[path |-> d, error |-> None, stat |-> TopValue(d),
                children |-> <<>>] : d \in TopDirs}
                \cup {[path |-> <<SelfName>>, error |-> None,
                       stat |-> RootDir.stat.value - TopSum,
                       children |-> <<>>]}
         /\ load_sort = "SizeDsc" =>
              \A i, j \in 1..Len(root.children) :
                i < j => root.children[i].stat >= root.children[j].stat

\* two children of positive value whose sum is below the root's, by stat
\* descending
C16_Witness ==
  /\ Returned
  /\ C16_Scenario
  /\ load_sort = "SizeDsc"
  /\ Cardinality(TopDirs) = 2
  /\ TopValue(<<"a">>) > 0
  /\ TopValue(<<"b">>) > 0
  /\ Len(loaded.value[1].children) = 3
  /\ \E i \in 1..3 : loaded.value[1].children[i].path = <<SelfName>>

(***************************************************************************)
(* One sort of a list of sibling nodes (cgroup/mod.rs:151-157) or of       *)
(* processes (proc/mod.rs:90-113), ascending and descending by one key.    *)
(* The elements of a list differ in path or in pid, so that their places   *)
(* can be followed.                                                        *)
(***************************************************************************)
MaxSort == 3

SortNodes ==
  {[CGroup_new(<<n>>) EXCEPT !.stat = s] : n \in Names \cup {SelfName}, s \in 0..1}

SortProcs ==
  [pid : Pids, cmd : {<<"a">>, <<"b">>}, stat : {Ok(0), Ok(1), Err("ValueNotFound")}]

SortCGroupLists ==
  {l \in UNION {[1..n -> SortNodes] : n \in 0..MaxSort} :
     \A i, j \in 1..Len(l) : i # j => l[i].path # l[j].path}

SortProcLists ==
  {l \in UNION {[1..n -> SortProcs] : n \in 0..MaxSort} :
     \A i, j \in 1..Len(l) : i # j => l[i].pid # l[j].pid}

CGroupSortKeys ==
  {[asc |-> "NameAsc", dsc |-> "NameDsc"], [asc |-> "SizeAsc", dsc |-> "SizeDsc"]}

ProcSortKeys ==
  {[asc |-> "PidAsc", dsc |-> "PidDsc"], [asc |-> "StatAsc", dsc |-> "StatDsc"],
   [asc |-> "CmdAsc", dsc |-> "CmdDsc"]}

SortInit ==
  /\ sort_kind = "none"
  /\ \/ sort_orders \in CGroupSortKeys /\ sort_list \in SortCGroupLists
     \/ sort_orders \in ProcSortKeys /\ sort_list \in SortProcLists
  /\ sort_asc = <<>>
  /\ sort_dsc = <<>>
  /\ ParseIdle
  /\ KeyedIdle
  /\ LoadIdle
  /\ TreeIdle
  /\ TableIdle
  /\ ProcsIdle
  /\ NavIdle
  /\ UiIdle

SortOther ==
  UNCHANGED <<sort_orders, sort_list, parseVars, keyedVars, loadVars, treeVars,
              tableVars, procVars, navVars, uiVars>>

\* cgroup/mod.rs:151-157
SortChildren ==
  /\ sort_kind = "none"
  /\ sort_orders \in CGroupSortKeys
  /\ sort_kind' = "cgroup"
  /\ sort_asc' = sort_by(sort_orders.asc, sort_list)
  /\ sort_dsc' = sort_by(sort_orders.dsc, sort_list)
  /\ SortOther

\* proc/mod.rs:90-113
SortProcesses ==
  /\ sort_kind = "none"
  /\ sort_orders \in ProcSortKeys
  /\ sort_kind' = "proc"
  /\ sort_asc' = proc_sort_by(sort_orders.asc, sort_list)
  /\ sort_dsc' = proc_sort_by(sort_orders.dsc, sort_list)
  /\ SortOther

NextSort ==
  \/ SortChildren
  \/ SortProcesses

SpecSort == SortInit /\ [][NextSort]_vars

\* x has a smaller key than y, under the key of this sort
KeyLess(x, y) ==
  IF sort_kind = "cgroup" THEN Before(sort_orders.asc, x, y)
  ELSE ProcBefore(sort_orders.asc, x, y)

KeyEqual(x, y) == ~KeyLess(x, y) /\ ~KeyLess(y, x)

PlaceIn(s, x) == CHOOSE i \in 1..Len(s) : s[i] = x

IsPermutation(s) ==
  /\ Len(s) = Len(sort_list)
  /\ \A i \in 1..Len(sort_list) : \E j \in 1..Len(s) : s[j] = sort_list[i]

TiesKeepOrder(s) ==
  \A i, j \in 1..Len(sort_list) :
    (i < j /\ KeyEqual(sort_list[i], sort_list[j])) =>
      PlaceIn(s, sort_list[i]) < PlaceIn(s, sort_list[j])

(***************************************************************************)
(* C15.  Sorting children and sorting processes is stable under every      *)
(* order: the result is the list reordered by key, entries with equal keys *)
(* keep their prior relative order ascending and descending, and when all  *)
(* keys are distinct the descending result is the reverse of the ascending *)
(* result.                                                                 *)
(***************************************************************************)
C15_SortStable ==
  sort_kind # "none" =>
    /\ IsPermutation(sort_asc)
    /\ IsPermutation(sort_dsc)
    /\ \A i, j \in 1..Len(sort_asc) :
         i < j => ~KeyLess(sort_asc[j], sort_asc[i])
    /\ \A i, j \in 1..Len(sort_dsc) :
         i < j => ~KeyLess(sort_dsc[i], sort_dsc[j])
    /\ TiesKeepOrder(sort_asc)
    /\ TiesKeepOrder(sort_dsc)
    /\ (\A i, j \in 1..Len(sort_list) :
          i # j => ~KeyEqual(sort_list[i], sort_list[j])) =>
         sort_dsc = Reverse(sort_asc)

\* two entries of equal key behind an entry of larger key, by stat
C15_Witness ==
  /\ sort_kind = "cgroup"
  /\ sort_orders.asc = "SizeAsc"
  /\ Len(sort_list) = 3
  /\ sort_list[1].stat > sort_list[2].stat
  /\ sort_list[2].stat = sort_list[3].stat
  /\ sort_dsc = sort_list
  /\ sort_asc = <<sort_list[2], sort_list[3], sort_list[1]>>

(***************************************************************************)
(* One call of proc::load_procs on a cgroup directory of CGroupDirs and a  *)
(* /proc of ProcFSInputs.                                                  *)
(***************************************************************************)
ProcsInit ==
  /\ lp_cgroup \in CGroupDirs
  /\ lp_proc \in ProcFSInputs
  /\ lp_include_children \in BOOLEAN
  /\ lp_threads \in BOOLEAN
  /\ lp_stat \in 0..(NumStats - 1)
  /\ lp_sort \in ProcSortOrders
  /\ lp_loaded = Err("none")
  /\ ParseIdle
  /\ KeyedIdle
  /\ LoadIdle
  /\ TreeIdle
  /\ TableIdle
  /\ SortIdle
  /\ NavIdle
  /\ UiIdle

\* proc/mod.rs:28-116
CallLoadProcs ==
  /\ lp_loaded = Err("none")
  /\ lp_loaded' = load_procs(lp_cgroup, lp_proc, lp_include_children,
                             lp_threads, lp_stat, lp_sort)
  /\ UNCHANGED <<lp_cgroup, lp_proc, lp_include_children, lp_threads, lp_stat,
                 lp_sort, parseVars, keyedVars, loadVars, treeVars, tableVars,
                 sortVars, navVars, uiVars>>

NextProcs == CallLoadProcs

SpecProcs == ProcsInit /\ [][NextProcs]_vars

\* the call has returned or panicked
ProcsCalled == lp_loaded # Err("none")

\* the pid and the command of each row of a returned list
PidCmds(rows) == [i \in 1..Len(rows) |-> [pid |-> rows[i].pid, cmd |-> rows[i].cmd]]

\* cgroup.procs is "12\n34\n", /proc/12/cmdline is "foo\0bar\0",
\* /proc/34/cmdline cannot be opened, /proc/34/comm is "bash\n", and the
\* processes of the directory alone are listed by pid ascending
C17_Scenario ==
  /\ ProcsCalled
  /\ ~lp_threads
  /\ ~lp_include_children
  /\ lp_sort = "PidAsc"
  /\ lp_cgroup.procs = FileText(<<"1", "2", "LF", "3", "4", "LF">>)
  /\ lp_proc[12].cmdline =
       FileText(<<"f", "o", "o", "NUL", "b", "a", "r", "NUL">>)
  /\ ~lp_proc[34].cmdline.exists
  /\ lp_proc[34].comm = FileText(<<"b", "a", "s", "h", "LF">>)

(***************************************************************************)
(* C17.  In the end-to-end process scenario load_procs returns exactly     *)
(* the two rows pid 12 with the command "foo bar" and pid 34 with the      *)
(* command "[bash]", in this order.                                        *)
(***************************************************************************)
C17_EndToEndProcs ==
  C17_Scenario =>
    /\ lp_loaded.tag = "Ok"
    /\ PidCmds(lp_loaded.value) =
         <<[pid |-> 12, cmd |-> <<"f", "o", "o", " ", "b", "a", "r">>],
           [pid |-> 34, cmd |-> <<"[", "b", "a", "s", "h", "]">>]>>

\* the file opens and its first line reads
YieldsValue(f) == f.exists /\ f.lines # <<>> /\ f.lines[1].tag = "Ok"

\* the ids load_pids gives for the call
CalledPids == load_pids(lp_cgroup, lp_threads, lp_include_children)

Unknown == <<"<", "U", "n", "k", "n", "o", "w", "n", ">">>

\* cmd is the text with a space for every NUL and nothing else changed
IsNulsAsSpaces(cmd, text) ==
  /\ Len(cmd) = Len(text)
  /\ \A i \in 1..Len(text) :
       cmd[i] = (IF text[i] = "NUL" THEN " " ELSE text[i])

\* the three levels of the display command of one row
CmdResolved(row) ==
  LET info == lp_proc[row.pid] IN
  IF YieldsValue(info.cmdline)
    THEN IsNulsAsSpaces(row.cmd, info.cmdline.lines[1].value)
  ELSE IF YieldsValue(info.comm)
    THEN row.cmd = <<"[">> \o info.comm.lines[1].value \o <<"]">>
  ELSE row.cmd = Unknown

(***************************************************************************)
(* C18.  The display command of every listed id is resolved on its own:    *)
(* the command line with every NUL as a space when the cmdline file yields *)
(* a value, otherwise the comm name in square brackets when the comm file  *)
(* yields a value, otherwise "<Unknown>"; the listing succeeds whenever    *)
(* the id list was read, with one row for each id, whatever the cmdline    *)
(* and comm files are.                                                     *)
(***************************************************************************)
C18_CmdFallback ==
  ProcsCalled =>
    /\ CalledPids.tag = "Ok" => lp_loaded.tag = "Ok"
    /\ lp_loaded.tag = "Ok" =>
         /\ Len(lp_loaded.value) = Len(CalledPids.value)
         /\ \A id \in Pids :
              Cardinality({i \in 1..Len(lp_loaded.value) :
                             lp_loaded.value[i].pid = id})
                = Cardinality({i \in 1..Len(CalledPids.value) :
                                 CalledPids.value[i] = id})
         /\ \A i \in 1..Len(lp_loaded.value) : CmdResolved(lp_loaded.value[i])

\* a listing with a row of each level: a command line with NULs, a comm
\* name and an unknown command
C18_Witness ==
  /\ ProcsCalled
  /\ lp_loaded.tag = "Ok"
  /\ \E i, j, k \in 1..Len(lp_loaded.value) :
       /\ YieldsValue(lp_proc[lp_loaded.value[i].pid].cmdline)
       /\ \E n \in 1..Len(lp_loaded.value[i].cmd) :
            lp_proc[lp_loaded.value[i].pid].cmdline.lines[1].value[n] = "NUL"
       /\ ~YieldsValue(lp_proc[lp_loaded.value[j].pid].cmdline)
       /\ YieldsValue(lp_proc[lp_loaded.value[j].pid].comm)
       /\ lp_loaded.value[j].cmd # Unknown
       /\ ~YieldsValue(lp_proc[lp_loaded.value[k].pid].cmdline)
       /\ ~YieldsValue(lp_proc[lp_loaded.value[k].pid].comm)
       /\ lp_loaded.value[k].cmd = Unknown

\* the id file of the last build_table could not be opened, or has a line
\* that cannot be read as an unsigned integer
IdFileBroken ==
  \/ ~table_id_file.exists
  \/ \E i \in 1..Len(table_id_file.lines) :
       \/ table_id_file.lines[i].tag # "Ok"
       \/ ~IsUsize(table_id_file.lines[i].value)

(***************************************************************************)
(* C19.  When the id file of the target directory (cgroup.procs, or        *)
(* cgroup.threads in thread mode) cannot be opened or has a line that is   *)
(* not an unsigned integer, load_procs returns an error and after          *)
(* build_table the table has no rows, an error message and no selected     *)
(* row.                                                                    *)
(***************************************************************************)
C19_IdFileErrorsFatal ==
  table_op = "build_table" /\ IdFileBroken =>
    /\ procs = <<>>
    /\ table_error # None
    /\ table_selected = None

\* a table with a selected row rebuilt on an id file whose second line is
\* no number
C19_Witness ==
  /\ table_op = "build_table"
  /\ old_selected_row # None
  /\ table_id_file = FileText(<<"1", "2", "LF", "x", "LF">>)
  /\ table_error # None

\* the id file of a directory opens and all its lines are ids
IdFileGood(d) ==
  LET f == IdFile(d, lp_threads)
  IN /\ f.exists
     /\ \A i \in 1..Len(f.lines) :
          f.lines[i].tag = "Ok" /\ IsUsize(f.lines[i].value)

\* the ids in the id file of a directory
OwnIds(d) ==
  LET f == IdFile(d, lp_threads)
  IN [i \in 1..Len(f.lines) |-> UsizeVal(f.lines[i].value)]

\* the recursive load of a directory succeeds: its id file is good and its
\* children can be enumerated
Loads(d) == IdFileGood(d) /\ d.listable

\* the ids of a directory that loads and of its descendants, a child that
\* does not load giving none for its subtree
RECURSIVE SubtreeIds(_)
RECURSIVE ChildrenIds(_)
SubtreeIds(d) == OwnIds(d) \o ChildrenIds(d.children)
ChildrenIds(ds) ==
  IF ds = <<>> THEN <<>>
  ELSE (IF Loads(Head(ds)) THEN SubtreeIds(Head(ds)) ELSE <<>>)
         \o ChildrenIds(Tail(ds))

\* how many times an id is in a list of ids
Times(ids, id) == Cardinality({i \in 1..Len(ids) : ids[i] = id})

\* the rows are the ids, each as many times as in the list
RowsAre(rows, ids) ==
  /\ Len(rows) = Len(ids)
  /\ \A id \in Pids : Times([i \in 1..Len(rows) |-> rows[i].pid], id) = Times(ids, id)

(***************************************************************************)
(* C20.  For a target directory whose id file is good (and, with           *)
(* include_children, whose children can be enumerated) the listing         *)
(* succeeds; with include_children its ids are the target's ids and the    *)
(* ids of every child loaded recursively, a child whose load fails giving  *)
(* no ids for its whole subtree; without include_children they are the     *)
(* target's own ids.                                                       *)
(***************************************************************************)
C20_IncludeChildren ==
  /\ ProcsCalled
  /\ IdFileGood(lp_cgroup)
  /\ lp_include_children => lp_cgroup.listable
  =>
    /\ lp_loaded.tag = "Ok"
    /\ RowsAre(lp_loaded.value,
               IF lp_include_children THEN SubtreeIds(lp_cgroup)
               ELSE OwnIds(lp_cgroup))

\* a target with ids, a child that fails above a grandchild with an id,
\* and a child that loads: the rows are the target's and the second
\* child's
C20_Witness ==
  /\ ProcsCalled
  /\ lp_include_children
  /\ lp_cgroup.children = <<ChildFailing, ChildOk>>
  /\ IdFileGood(lp_cgroup)
  /\ OwnIds(lp_cgroup) # <<>>
  /\ lp_loaded.tag = "Ok"
  /\ Len(lp_loaded.value) = Len(OwnIds(lp_cgroup)) + 1

\* the unit of the process-level analog of the statistic of the call
CalledStatType == STATS[lp_stat + 1].proc_stype

\* the stat of a row is the extraction of its process in bytes
StatInBytes(row) ==
  LET value == lp_proc[row.pid].value
  IN row.stat = (IF value.tag = "Ok" THEN Ok(1024 * value.value) ELSE value)

(***************************************************************************)
(* C21.  When the statistic declares a process-level analog in kilobytes   *)
(* the stat of every row is 1024 times the extracted integer, or the       *)
(* extraction error unchanged; when it declares none the stat of every row *)
(* is 0.                                                                   *)
(***************************************************************************)
C21_StatNormalised ==
  ProcsCalled /\ lp_loaded.tag = "Ok" =>
    \A i \in 1..Len(lp_loaded.value) :
      /\ CalledStatType = "MemQtyKb" => StatInBytes(lp_loaded.value[i])
      /\ CalledStatType = "None" => lp_loaded.value[i].stat = Ok(0)

(***************************************************************************)
(* The process scene (app/scenes/procs/mod.rs).                            *)
(***************************************************************************)
\* the variants of Action the scenes of src construct
ActReload == [type |-> "Reload"]
ActScene(scene) == [type |-> "Scene", scene |-> scene]
ActProcSort(sort) == [type |-> "ProcSort", sort |-> sort]
ActStat(stat) == [type |-> "Stat", stat |-> stat]
ActProcMode(threads, include_children) ==
  [type |-> "ProcMode", threads |-> threads,
   include_children |-> include_children]

\* CGroupSortOrder as set_cgroup_sort matches it
CGroupSortOrders == {"NameAsc", "NameDsc", "StatAsc", "StatDsc"}

\* procs/mod.rs:126-136
resolve_sort(scene) ==
  [scene EXCEPT !.sort =
     IF STATS[scene.stat + 1].proc_stype = "None"
       THEN CASE scene.proc_sort = "StatAsc" -> "PidAsc"
              [] scene.proc_sort = "StatDsc" -> "PidDsc"
              [] OTHER -> scene.proc_sort
     ELSE scene.proc_sort]

\* procs/mod.rs:71-74 without the call of resolve_sort
set_stat_unresolved(scene, stat) == [scene EXCEPT !.stat = stat]

\* procs/mod.rs:71-74
set_stat(scene, stat) == resolve_sort([scene EXCEPT !.stat = stat])

\* procs/mod.rs:77-80
set_sort(scene, sort) == resolve_sort([scene EXCEPT !.proc_sort = sort])

\* procs/mod.rs:83-91
set_cgroup_sort(scene, sort) ==
  resolve_sort([scene EXCEPT !.proc_sort =
                  CASE sort = "NameAsc" -> "CmdAsc"
                    [] sort = "NameDsc" -> "CmdDsc"
                    [] sort = "StatAsc" -> "StatAsc"
                    [] sort = "StatDsc" -> "StatDsc"])

\* procs/mod.rs:94-97
set_mode(scene, threads, include_children) ==
  [scene EXCEPT !.threads = threads, !.include_children = include_children]

\* procs/mod.rs:60-66 storing the path as it is given
set_cgroup_as_given(scene, path) == [scene EXCEPT !.cgroup = path]

\* procs/mod.rs:60-66: the path without a last component "<self>"
set_cgroup(scene, path) ==
  [scene EXCEPT !.cgroup =
     IF path # <<>> /\ path[Len(path)] = "<self>"
       THEN SubSeq(path, 1, Len(path) - 1)
     ELSE path]

\* procs/mod.rs:99-106
sort_pid(scene) ==
  LET new_sort == IF scene.sort = "PidAsc" THEN "PidDsc" ELSE "PidAsc"
  IN [scene |-> scene, result |-> Some(<<ActProcSort(new_sort), ActReload>>)]

\* procs/mod.rs:108-115
sort_name(scene) ==
  LET new_sort == IF scene.sort = "CmdAsc" THEN "CmdDsc" ELSE "CmdAsc"
  IN [scene |-> scene, result |-> Some(<<ActProcSort(new_sort), ActReload>>)]

\* procs/mod.rs:117-124 storing the new order itself
sort_stat_stores_sort(scene) ==
  LET new_sort == IF scene.sort = "StatAsc" THEN "StatDsc" ELSE "StatAsc"
  IN [scene |-> set_sort(scene, new_sort), result |-> Some(<<ActReload>>)]

\* procs/mod.rs:117-124
sort_stat(scene) ==
  LET new_sort == IF scene.sort = "StatAsc" THEN "StatDsc" ELSE "StatAsc"
  IN [scene |-> scene, result |-> Some(<<ActProcSort(new_sort), ActReload>>)]

\* procs/mod.rs:141-153 leaving the loop after its first step
NextStatFrom_one_step(stat, up) ==
  IF up THEN (stat + 1) % NumStats
  ELSE IF stat = 0 THEN NumStats - 1
  ELSE stat - 1

\* procs/mod.rs:141-153: the loop ends at a statistic with a process value
RECURSIVE NextStatFrom(_, _)
NextStatFrom(stat, up) ==
  LET new_stat == IF up THEN (stat + 1) % NumStats
                  ELSE IF stat = 0 THEN NumStats - 1
                  ELSE stat - 1
  IN IF STATS[new_stat + 1].proc_stype # "None" THEN new_stat
     ELSE NextStatFrom(new_stat, up)

\* procs/mod.rs:138-156
next_stat(scene, up) ==
  [scene |-> scene,
   result |-> Some(<<ActStat(NextStatFrom(scene.stat, up)), ActReload>>)]

\* the key codes key_event tells apart, and one it does not know
SceneKeys ==
  {"q", "Esc", "p", "t", "P", "T", "Up", "Down", "PageUp", "PageDown",
   "Home", "End", "i", "n", "s", "[", "]", "a", "c", "h", "r", "x"}

\* procs/mod.rs:218-249: the scene and the selected row after the key, and
\* the PollResult
key_event(scene, n_items, sel, page, key) ==
  LET table(moved) ==
        [scene |-> scene, selected |-> moved.selected, result |-> moved.result]
      own(called) ==
        [scene |-> called.scene, selected |-> sel, result |-> called.result]
      actions(list) == [scene |-> scene, selected |-> sel, result |-> Some(list)]
  IN CASE key \in {"q", "Esc", "p", "t", "P", "T"} ->
            actions(<<ActScene("CGroupTree")>>)
       [] key = "Up" -> table(table_move_by(n_items, sel, -1))
       [] key = "Down" -> table(table_move_by(n_items, sel, 1))
       [] key = "PageUp" -> table(table_move_by(n_items, sel, -page))
       [] key = "PageDown" -> table(table_move_by(n_items, sel, page))
       [] key = "Home" -> table(move_to(n_items, sel, 1))
       [] key = "End" -> table(move_to(n_items, sel, -1))
       [] key = "i" -> own(sort_pid(scene))
       [] key = "n" -> own(sort_name(scene))
       [] key = "s" -> own(sort_stat(scene))
       [] key = "[" -> own(next_stat(scene, FALSE))
       [] key = "]" -> own(next_stat(scene, TRUE))
       [] key = "a" ->
            actions(<<ActProcMode(~scene.threads, scene.include_children),
                      ActReload>>)
       [] key = "c" ->
            actions(<<ActProcMode(scene.threads, ~scene.include_children),
                      ActReload>>)
       [] key = "h" -> actions(<<ActScene("ProcsHelp")>>)
       [] key = "r" -> actions(<<ActReload>>)
       [] OTHER -> [scene |-> scene, selected |-> sel, result |-> None]

\* the cgroup2 file system of the scene: the root with the processes 12
\* and 34, each of one thread, and no cgroup below it; the cgroup a shown
\* by the tree view is gone
SceneRootDir == LeafDir(FileText(<<"1", "2", "LF", "3", "4", "LF">>))

SceneNoDir ==
  [procs |-> NoFile, threads |-> NoFile, listable |-> FALSE, children |-> <<>>]

SceneDir(path) ==
  CASE path = <<>> -> SceneRootDir
    [] OTHER -> SceneNoDir

\* /proc of the scene
SceneProcFS ==
  [p \in Pids |-> CASE p = 12 -> ProcWithCmdline [] p = 34 -> ProcWithComm
                    [] OTHER -> ProcKernelThread]

\* the paths a cgroup of the tree view is shown for
ScenePaths == {<<>>, <<"<self>">>, <<"a">>, <<"a", "<self>">>}

\* what Scene::reload hands to build_table (procs/mod.rs:163-170)
ListerArgs(scene) ==
  [cgroup |-> scene.cgroup, threads |-> scene.threads,
   include_children |-> scene.include_children, stat |-> scene.stat,
   sort |-> scene.sort]

SceneLoad(scene) ==
  [id_file |-> IdFile(SceneDir(scene.cgroup), scene.threads),
   result |-> load_procs(SceneDir(scene.cgroup), SceneProcFS,
                         scene.include_children, scene.threads, scene.stat,
                         scene.sort)]

SceneTableOther ==
  UNCHANGED <<parseVars, keyedVars, loadVars, treeVars, sortVars, procVars,
              table_loads>>

SceneOther ==
  UNCHANGED <<ctl_scene, ctl_pc, ctl_reload, ctl_actions,
              ctl_hist, appVars, staticVars>>

\* a setter leaves the table alone
SceneSet(scene) ==
  /\ table_op # "panic"
  /\ procs_scene' = scene
  /\ scene_result' = None
  /\ NoKey
  /\ UNCHANGED <<tableVars, table_page_size>>
  /\ SceneTableOther
  /\ SceneOther

\* procs/mod.rs:60-68: set_cgroup ends with table.reset(); the path of the
\* call and the row selected before it are kept
SetCGroup ==
  /\ table_op # "panic"
  /\ \E path \in ScenePaths :
       /\ procs_scene' = set_cgroup(procs_scene, path)
       /\ key_pressed' = <<"set_cgroup", path>>
  /\ key_result' = None
  /\ table_selected' = None
  /\ table_op' = "key"
  /\ old_selected_pid' = None
  /\ old_selected_row' = table_selected
  /\ UNCHANGED table_id_file
  /\ scene_result' = None
  /\ UNCHANGED <<procs, table_items, table_error, table_page_size>>
  /\ SceneTableOther
  /\ SceneOther

\* a statistic with a process value and one without
SceneStats == {0, 3}

SetStat ==
  \E stat \in SceneStats :
    SceneSet(set_stat(procs_scene, stat))

SetSort ==
  \E sort \in ProcSortOrders : SceneSet(set_sort(procs_scene, sort))

SetCGroupSort ==
  \E sort \in CGroupSortOrders :
    SceneSet(set_cgroup_sort(procs_scene, sort))

SetMode ==
  \E threads \in BOOLEAN, include_children \in BOOLEAN :
    SceneSet(set_mode(procs_scene, threads, include_children))

\* procs/mod.rs:161-175
SceneReload ==
  /\ table_op # "panic"
  /\ build_table(SceneLoad(procs_scene))
  /\ scene_result' = None
  /\ NoKey
  /\ UNCHANGED <<procs_scene, table_page_size>>
  /\ SceneTableOther
  /\ SceneOther

\* procs/mod.rs:178-215 with table.rs:193-203: one row of the block inside
\* the borders is the heading
SceneDraw ==
  /\ table_op # "panic"
  /\ \E height \in {0, MaxHeight} :
       table_page_size' = IF height > 0 THEN height - 1 ELSE 0
  /\ scene_result' = None
  /\ NoKey
  /\ UNCHANGED <<procs_scene, tableVars>>
  /\ SceneTableOther
  /\ SceneOther

\* procs/mod.rs:218-249
KeyEvent ==
  /\ table_op # "panic"
  /\ \E key \in SceneKeys :
       LET after == key_event(procs_scene, Len(table_items), table_selected,
                              table_page_size, key)
       IN /\ procs_scene' = after.scene
          /\ table_selected' = after.selected
          /\ scene_result' = after.result
  /\ NoKey
  /\ TableHistReset("key")
  /\ UNCHANGED <<procs, table_items, table_error, table_page_size>>
  /\ SceneTableOther
  /\ SceneOther

\* ProcsScene::new (procs/mod.rs:42-57) with ProcsTable::default()
SceneInit ==
  /\ procs_scene = ProcsScene_new
  /\ scene_result = None
  /\ ctl_scene = "CGroupTree"
  /\ ctl_pc = "idle"
  /\ ctl_reload = FALSE
  /\ ctl_actions = <<>>
  /\ ctl_hist = CtlHistNew
  /\ ParseIdle
  /\ KeyedIdle
  /\ LoadIdle
  /\ TreeIdle
  /\ TableIdle
  /\ SortIdle
  /\ ProcsIdle
  /\ NavIdle
  /\ AppIdle
  /\ StaticIdle

NextScene ==
  \/ SetCGroup
  \/ SetStat
  \/ SetSort
  \/ SetCGroupSort
  \/ SetMode
  \/ SceneReload
  \/ SceneDraw
  \/ KeyEvent

SpecScene == SceneInit /\ [][NextScene]_vars

\* whether the active statistic has a process-level analog
HasProcStat(scene) == STATS[scene.stat + 1].proc_stype # "None"

\* C22: in every reachable state of the process scene, the sort handed to
\* the lister is the requested sort when the active statistic has a
\* process-level analog; when it has none a requested StatAsc is carried out
\* as PidAsc and a requested StatDsc as PidDsc, any other request as it is,
\* so that the lister is never handed StatAsc or StatDsc.
C22_StatSortFallback ==
  LET requested == procs_scene.proc_sort
      effective == ListerArgs(procs_scene).sort
  IN IF HasProcStat(procs_scene) THEN effective = requested
     ELSE /\ effective \notin {"StatAsc", "StatDsc"}
          /\ requested = "StatAsc" => effective = "PidAsc"
          /\ requested = "StatDsc" => effective = "PidDsc"
          /\ requested \notin {"StatAsc", "StatDsc"} => effective = requested

\* a table loaded by descending PID while the sort by statistic, descending,
\* is requested for a statistic without a process-level analog
C22_Witness ==
  /\ ~HasProcStat(procs_scene)
  /\ procs_scene.proc_sort = "StatDsc"
  /\ table_op = "build_table"
  /\ Len(procs) = 2
  /\ procs[1].pid = 34
  /\ procs[2].pid = 12

(***************************************************************************)
(* The keys of the two views (tree.rs:168-245, table.rs:226-311), with     *)
(* what each method returns.                                               *)
(***************************************************************************)
\* the trees shown: none, and two roots of which one has a child
ViewTreeLoads ==
  {t \in {load_cgroups(STATS[1].def, fs, "NameAsc") : fs \in TreeFSInputs} :
     /\ t.tag = "Ok"
     /\ \/ t.value = <<>>
        \/ Len(t.value) = 2 /\ \E i \in 1..2 : t.value[i].children # <<>>}

\* the cgroups listed: one without a process, and one with the processes 12
\* and 34 above a cgroup with the process 5
ViewCGroupDirs ==
  {LeafDir(FileText(<<>>)),
   [procs |-> FileText(<<"1", "2", "LF", "3", "4", "LF">>),
    threads |-> ThreadsFile, listable |-> TRUE, children |-> <<ChildOk>>]}

ViewTableLoads ==
  {[id_file |-> IdFile(cg, FALSE),
    result |-> load_procs(cg, SceneProcFS, TRUE, FALSE, 0, "PidAsc")] :
     cg \in ViewCGroupDirs}

\* a run of the tree view or a run of the process table
ViewsInit ==
  /\ TreeFresh
  /\ TableFresh
  /\ \/ tree_loads = ViewTreeLoads /\ table_loads = {}
     \/ tree_loads = {} /\ table_loads = ViewTableLoads
  /\ ParseIdle
  /\ KeyedIdle
  /\ LoadIdle
  /\ SortIdle
  /\ ProcsIdle
  /\ NavIdle
  /\ UiIdle

\* tree.rs:198-245
ViewTreeKey ==
  \E key \in TreeKeys :
    /\ TreeKey(tree_key(key))
    /\ key_pressed' = <<"tree", key>>
    /\ key_result' = tree_key(key).result
    /\ UNCHANGED table_page_size

\* table.rs:227-254
ViewTableKey ==
  \E key \in TableKeys :
    /\ TableKey(table_key(key))
    /\ key_pressed' = <<"table", key>>
    /\ key_result' = table_key(key).result
    /\ UNCHANGED table_page_size

\* table.rs:193-203: one row of the block inside the borders is the heading
TableRender ==
  /\ table_op # "panic"
  /\ \E height \in {0, MaxHeight} :
       table_page_size' = IF height > 0 THEN height - 1 ELSE 0
  /\ TableHistReset("render")
  /\ NoKey
  /\ UNCHANGED <<procs, table_items, table_error, table_selected>>
  /\ TableOther

NextViews ==
  \/ BuildTree
  \/ Render
  \/ ViewTreeKey
  \/ BuildTable
  \/ TableRender
  \/ ViewTableKey

SpecViews == ViewsInit /\ [][NextViews]_vars

\* the rows of the tree view that are visible
Visible == flatten(tree_opened, cgroups, <<>>)

\* the tree view handles one of the keys
TreePressed(keys) == key_pressed'[1] = "tree" /\ key_pressed'[2] \in keys

\* the process table handles one of the keys
TablePressed(keys) == key_pressed'[1] = "table" /\ key_pressed'[2] \in keys

\* the key changes no selection and asks for no redraw
NoMove ==
  /\ tree_selected' = tree_selected
  /\ table_selected' = table_selected
  /\ key_result' = None

\* C23: navigation in both views clamps and never wraps: down and page-down
\* from the last visible row, and up and page-up from the first, leave the
\* selection unchanged and return no redraw request; with no row selected,
\* down selects the first visible row.
C23_ClampNoWrap ==
  [][/\ TreePressed({"down", "pg_down"})
          /\ Visible # <<>> /\ tree_selected = Visible[Len(Visible)]
        => NoMove
     /\ TreePressed({"up", "pg_up"})
          /\ Visible # <<>> /\ tree_selected = Visible[1]
        => NoMove
     /\ TreePressed({"down"})
          /\ Visible # <<>> /\ Position(Visible, tree_selected) = None
        => tree_selected' = Visible[1]
     /\ TablePressed({"down", "pgdown"})
          /\ procs # <<>> /\ table_selected = Some(Len(procs) - 1)
        => NoMove
     /\ TablePressed({"up", "pgup"})
          /\ procs # <<>> /\ table_selected = Some(0)
        => NoMove
     /\ TablePressed({"down"}) /\ procs # <<>> /\ table_selected = None
        => table_selected' = Some(0)]_vars

\* page-down, with a page of two rows, has left the selection on the last of
\* three rows of the table and has asked for no redraw
C23_Witness ==
  /\ key_pressed = <<"table", "pgdown">>
  /\ key_result = None
  /\ table_page_size = 2
  /\ Len(procs) = 3
  /\ table_selected = Some(2)

(***************************************************************************)
(* The application loop of app/mod.rs: the cgroup tree and its help, with  *)
(* a clock and a queue of input events.                                    *)
(***************************************************************************)
\* the clock stops after MaxTime seconds, the queue holds MaxQueue events
\* and the help scrolls MaxScroll lines
MaxTime == 10
MaxQueue == 2
MaxScroll == 1

\* Duration::from_secs(5) of run
RefreshSecs == 5

\* key codes, a mouse event, a resize, and a key nothing handles
AppEvents ==
  {"q", "Esc", "Down", "Up", "n", "s", "h", "ScrollDown", "Resize", "x"}

\* /sys/fs/cgroup: the cgroup a with a stat of 2 and the cgroup b with 1
AppFS ==
  [dir |-> [d \in Dirs |->
              CASE d = <<>> -> [kind |-> "dir", stat |-> Ok(0)]
                [] d = <<"a">> -> [kind |-> "dir", stat |-> Ok(2)]
                [] d = <<"b">> -> [kind |-> "dir", stat |-> Ok(1)]
                [] OTHER -> [kind |-> "absent"]],
   order |-> <<"a", "b", "c">>]

\* what load_cgroups returns for each sort order
AppLoads ==
  [sort \in SortOrders |-> load_cgroups(STATS[1].def, AppFS, sort).value]

\* the runs: one event at a time while the clock runs, and bursts of keys
\* of the tree while it stands
AppEnvs ==
  {[loads |-> AppLoads, clock |-> TRUE, events |-> AppEvents, queue |-> 1],
   [loads |-> AppLoads, clock |-> FALSE, events |-> {"Down", "n", "x"},
    queue |-> MaxQueue]}

\* app/mod.rs:93-95 never overdue, the time left taken as a whole period
time_to_refresh_whole_period(refresh, instant) == Some(RefreshSecs)

\* app/mod.rs:93-95 with Instant::checked_duration_since: None when overdue
time_to_refresh(refresh, instant) ==
  IF refresh >= instant THEN Some(refresh - instant) ELSE None

\* app/mod.rs:358-374: the scroll position and the PollResult
scroll_help_up(scroll) ==
  IF scroll > 0 THEN [scroll |-> scroll - 1, result |-> "Redraw"]
  ELSE [scroll |-> scroll, result |-> "None"]

scroll_help_down(scroll) ==
  [scroll |-> scroll + 1, result |-> "Redraw"]

\* app/mod.rs:234-308: the scene, the sort and the tree state after one
\* event read in the cgroup tree, and the PollResult
tree_event(event) ==
  LET visible == flatten(app_tree_state.opened, app_tree_items, <<>>)
      same(res) ==
        [scene |-> app_scene, sort |-> app_sort, state |-> app_tree_state,
         result |-> res]
      moved(amount, no_pos) ==
        [same("Redraw") EXCEPT !.state.selected =
           move_by(visible, app_tree_state.selected, amount, no_pos).selected]
  IN CASE event \in {"q", "Esc"} -> same("Exit")
       [] event \in {"Down", "ScrollDown"} -> moved(1, -1)
       [] event = "Up" -> moved(-1, 1)
       [] event = "n" ->
            [same("Reload") EXCEPT !.sort =
               IF app_sort = "NameAsc" THEN "NameDsc" ELSE "NameAsc"]
       [] event = "s" ->
            [same("Reload") EXCEPT !.sort =
               IF app_sort = "SizeAsc" THEN "SizeDsc" ELSE "SizeAsc"]
       [] event = "h" -> [same("Redraw") EXCEPT !.scene = "Help"]
       [] event = "Resize" -> same("Redraw")
       [] OTHER -> same("None")

\* app/mod.rs:323-351: the scene and the scroll position after one event
\* read in the help, and the PollResult
help_event(event) ==
  LET same(res) ==
        [scene |-> app_scene, scroll |-> help_scroll, result |-> res]
      scrolled(to) ==
        [scene |-> app_scene, scroll |-> to.scroll, result |-> to.result]
  IN CASE event \in {"q", "h", "Esc"} ->
            [same("Reload") EXCEPT !.scene = "CGroupTree"]
       [] event \in {"Down", "ScrollDown"} -> scrolled(scroll_help_down(help_scroll))
       [] event = "Up" -> scrolled(scroll_help_up(help_scroll))
       [] event = "Resize" -> same("Redraw")
       [] OTHER -> same("None")

AppOther ==
  UNCHANGED <<parseVars, keyedVars, loadVars, treeVars, tableVars, sortVars,
              procVars, navVars, sceneVars, staticVars, app_env>>

\* the path of the selected cgroup, None without one
AppSelectedPath ==
  LET sel == app_tree_state.selected
  IN IF sel # <<>> /\ sel[1] < Len(app_tree_items)
       THEN Some(app_tree_items[sel[1] + 1].path)
     ELSE None

\* app/mod.rs:63-64
AppRun ==
  /\ app_pc = "idle"
  /\ app_reload' = TRUE
  /\ app_pc' = "top"
  /\ UNCHANGED <<app_scene, app_sort, app_tree_items, app_tree_state,
                 help_scroll, next_refresh, app_wait, app_result, now, queue,
                 app_event>>
  /\ AppOther

\* app/mod.rs:67-76 with the deadline set on every pass of the loop
AppReload_rearm_always ==
  /\ app_pc = "top"
  /\ IF app_reload
       THEN app_tree_items' = app_env.loads[app_sort]
       ELSE UNCHANGED app_tree_items
  /\ next_refresh' = now + RefreshSecs
  /\ app_reload' = FALSE
  /\ app_pc' = "draw"
  /\ UNCHANGED <<app_scene, app_sort, app_tree_state, help_scroll, app_wait,
                 app_result, now, queue, app_event>>
  /\ AppOther

\* app/mod.rs:67-76 with build_tree (111-119)
AppReload ==
  /\ app_pc = "top"
  /\ IF app_reload
       THEN /\ app_tree_items' = app_env.loads[app_sort]
            /\ next_refresh' = now + RefreshSecs
       ELSE UNCHANGED <<app_tree_items, next_refresh>>
  /\ app_reload' = FALSE
  /\ app_pc' = "draw"
  /\ UNCHANGED <<app_scene, app_sort, app_tree_state, help_scroll, app_wait,
                 app_result, now, queue, app_event>>
  /\ AppOther

\* app/mod.rs:79
AppDraw ==
  /\ app_pc = "draw"
  /\ app_pc' = "poll"
  /\ UNCHANGED <<app_scene, app_sort, app_tree_items, app_tree_state,
                 help_scroll, next_refresh, app_wait, app_reload, app_result,
                 now, queue, app_event>>
  /\ AppOther

\* app/mod.rs:82-87: run takes the PollResult
AppReturn(res) ==
  /\ app_result' = res
  /\ app_wait' = None
  /\ app_pc' = CASE res = "Exit" -> "exit"
                 [] res = "None" -> "poll"
                 [] OTHER -> "top"
  /\ app_reload' = (res = "Reload")
\* app/mod.rs:227-232 with the help scene polled under the refresh timeout
AppPoll_help_timed ==
  /\ app_pc = "poll"
  /\ LET poll_duration == time_to_refresh(next_refresh, now)
     IN IF poll_duration # None
          THEN /\ app_pc' = "wait"
               /\ app_wait' = Some(now + poll_duration[1])
               /\ UNCHANGED <<app_reload, app_result, app_event>>
        ELSE /\ AppReturn("Reload")
             /\ app_event' = "overdue"
  /\ UNCHANGED <<app_scene, app_sort, app_tree_items, app_tree_state,
                 help_scroll, next_refresh, now, queue>>
  /\ AppOther

\* app/mod.rs:230-232 and 309-315: the time left before the wait, or a reload
\* when none is left; app/mod.rs:322-323: a read that waits for an event
AppPoll ==
  /\ app_pc = "poll"
  /\ IF app_scene = "CGroupTree"
       THEN LET poll_duration == time_to_refresh(next_refresh, now)
            IN IF poll_duration # None
                 THEN /\ app_pc' = "wait"
                      /\ app_wait' = Some(now + poll_duration[1])
                      /\ UNCHANGED <<app_reload, app_result, app_event>>
               ELSE /\ AppReturn("Reload")
                    /\ app_event' = "overdue"
     ELSE /\ app_pc' = "wait"
          /\ app_wait' = None
          /\ UNCHANGED <<app_reload, app_result, app_event>>
  /\ UNCHANGED <<app_scene, app_sort, app_tree_items, app_tree_state,
                 help_scroll, next_refresh, now, queue>>
  /\ AppOther

\* app/mod.rs:233-308 and 323-351: one event is read and handled; the loop
\* of poll goes on after a result of None
AppRead ==
  /\ app_pc = "wait"
  /\ queue # <<>>
  /\ LET event == Head(queue) IN
     /\ IF app_scene = "CGroupTree"
          THEN LET after == tree_event(event)
               IN /\ app_scene' = after.scene
                  /\ app_sort' = after.sort
                  /\ app_tree_state' = after.state
                  /\ AppReturn(after.result)
                  /\ UNCHANGED help_scroll
        ELSE LET after == help_event(event)
             IN /\ help_scroll < MaxScroll \/ after.scroll <= help_scroll
                /\ app_scene' = after.scene
                /\ help_scroll' = after.scroll
                /\ AppReturn(after.result)
                /\ UNCHANGED <<app_sort, app_tree_state>>
     /\ app_event' = event
  /\ queue' = Tail(queue)
  /\ UNCHANGED <<app_tree_items, next_refresh, now>>
  /\ AppOther

\* app/mod.rs:309-311: no event in the timeout period
AppTimeout ==
  /\ app_pc = "wait"
  /\ queue = <<>>
  /\ app_wait # None
  /\ now >= app_wait[1]
  /\ AppReturn("Reload")
  /\ app_event' = "timeout"
  /\ UNCHANGED <<app_scene, app_sort, app_tree_items, app_tree_state,
                 help_scroll, next_refresh, now, queue>>
  /\ AppOther

\* the terminal queues an input event
EventArrives ==
  /\ app_pc \notin {"idle", "exit"}
  /\ Len(queue) < app_env.queue
  /\ \E event \in app_env.events : queue' = Append(queue, event)
  /\ UNCHANGED <<app_scene, app_sort, app_tree_items, app_tree_state,
                 help_scroll, next_refresh, app_pc, app_wait, app_reload,
                 app_result, now, app_event>>
  /\ AppOther

\* the clock, read once in a refresh period, goes on; a wait with a timeout
\* does not outlast it
Tick ==
  /\ app_pc \notin {"idle", "exit"}
  /\ app_env.clock
  /\ now < MaxTime
  /\ ~(app_pc = "wait" /\ app_wait # None /\ now >= app_wait[1])
  /\ now' = now + RefreshSecs
  /\ UNCHANGED <<app_scene, app_sort, app_tree_items, app_tree_state,
                 help_scroll, next_refresh, app_pc, app_wait, app_reload,
                 app_result, queue, app_event>>
  /\ AppOther

\* App::new (app/mod.rs:47-60)
AppInit ==
  /\ app_scene = "CGroupTree"
  /\ app_sort = "NameAsc"
  /\ app_tree_items = <<>>
  /\ app_tree_state = [selected |-> <<>>, opened |-> {}]
  /\ help_scroll = 0
  /\ next_refresh = 0
  /\ app_pc = "idle"
  /\ app_wait = None
  /\ app_reload = FALSE
  /\ app_result = "None"
  /\ now = 0
  /\ queue = <<>>
  /\ app_env \in AppEnvs
  /\ app_event = "none"
  /\ ParseIdle
  /\ KeyedIdle
  /\ LoadIdle
  /\ TreeIdle
  /\ TableIdle
  /\ SortIdle
  /\ ProcsIdle
  /\ NavIdle
  /\ SceneIdle
  /\ StaticIdle

NextApp ==
  \/ AppRun
  \/ AppReload
  \/ AppDraw
  \/ AppPoll
  \/ AppRead
  \/ AppTimeout
  \/ EventArrives
  \/ Tick

SpecApp == AppInit /\ [][NextApp]_vars

\* the cgroup tree is shown and run is at the step pc
TreeAt(pc) == app_scene = "CGroupTree" /\ app_pc = pc

\* poll returns Reload to run without having read an event
ReloadsByItself ==
  /\ app_result' = "Reload"
  /\ app_reload'
  /\ app_pc' = "top"
  /\ queue' = queue

\* C24: in the cgroup tree the wait for input ends no later than the next
\* scheduled refresh; when it ends with no input, and when the refresh is
\* overdue as polling starts, poll returns Reload by itself, and run then
\* loads the tree and schedules the next refresh.
C24_TimedRefresh ==
  /\ [](TreeAt("wait") =>
          /\ app_wait # None
          /\ app_wait[1] <= next_refresh
          /\ now <= app_wait[1])
  /\ [][/\ TreeAt("wait") /\ queue = <<>> /\ now >= next_refresh
             /\ app_pc' # "wait"
           => ReloadsByItself
        /\ TreeAt("poll") /\ now > next_refresh /\ app_pc' # "poll"
           => ReloadsByItself
        /\ app_pc = "top" /\ app_reload /\ app_pc' # "top"
           => /\ app_tree_items' = app_env.loads[app_sort]
              /\ next_refresh' = now + RefreshSecs]_vars

\* the tree reloaded at its deadline, no key pressed since the start
C24_Witness ==
  /\ TreeAt("draw")
  /\ app_event = "timeout"
  /\ app_result = "Reload"
  /\ now = RefreshSecs
  /\ next_refresh = now + RefreshSecs
  /\ queue = <<>>

\* C25: when several input events are queued, poll reads all of them before
\* run draws again: a read after which run goes on to its draw leaves no
\* event of the queue unread.
C25_BatchDrained ==
  [][app_pc = "wait" /\ queue # <<>> /\ app_pc' = "top" => queue' = <<>>]_vars

(***************************************************************************)
(* The controller of the scenes (the action protocol), around the process  *)
(* scene of app/scenes/procs and the loop of App::run.                     *)
(***************************************************************************)
\* the variants of Action no scene of src constructs
ActExit == [type |-> "Exit"]
ActCGroup(path) == [type |-> "CGroup", path |-> path]
ActCGroupSort(sort) == [type |-> "CGroupSort", sort |-> sort]

\* the action lists of the events of the cgroup tree: a redraw, a reload, a
\* new statistic or sort order, the processes of a cgroup, and the end
TreeSceneLists ==
  {<<>>, <<ActReload>>, <<ActExit>>}
    \cup {<<ActStat(stat), ActReload>> : stat \in SceneStats}
    \cup {<<ActCGroupSort(sort), ActReload>> : sort \in {"NameDsc", "StatAsc"}}
    \cup {<<ActCGroup(path), ActProcMode(threads, FALSE), ActScene("Procs")>> :
            path \in {<<>>, <<"a", "<self>">>}, threads \in BOOLEAN}

\* procs_help/mod.rs:102-111 in terms of actions: to the tree, or a scroll
HelpSceneLists == {<<ActScene("CGroupTree")>>, <<>>}

\* the scenes with a refresh deadline
TimedScenes == {"CGroupTree", "Procs"}

\* one action applied to the process scene
apply_to_scene(scene, action) ==
  CASE action.type = "ProcSort" -> set_sort(scene, action.sort)
    [] action.type = "Stat" -> set_stat(scene, action.stat)
    [] action.type = "ProcMode" ->
         set_mode(scene, action.threads, action.include_children)
    [] action.type = "CGroup" -> set_cgroup(scene, action.path)
    [] action.type = "CGroupSort" -> set_cgroup_sort(scene, action.sort)
    [] OTHER -> scene

CtlOther ==
  UNCHANGED <<parseVars, keyedVars, loadVars, treeVars, sortVars, procVars,
              table_loads, key_pressed, key_result, appVars, staticVars>>

\* app/mod.rs:63-64 started without a reload
CtlRun_no_reload ==
  /\ ctl_pc = "idle"
  /\ ctl_reload' = FALSE
  /\ ctl_pc' = "top"
  /\ UNCHANGED <<procs_scene, scene_result, ctl_scene, ctl_actions, ctl_hist,
                 tableVars, table_page_size>>
  /\ CtlOther

\* app/mod.rs:63-64
CtlRun ==
  /\ ctl_pc = "idle"
  /\ ctl_reload' = TRUE
  /\ ctl_pc' = "top"
  /\ UNCHANGED <<procs_scene, scene_result, ctl_scene, ctl_actions, ctl_hist,
                 tableVars, table_page_size>>
  /\ CtlOther

\* app/mod.rs:67-76 with the reload of the active scene (procs/mod.rs:161-175)
CtlReload ==
  /\ ctl_pc = "top"
  /\ table_op # "panic"
  /\ IF ctl_reload
       THEN /\ IF ctl_scene = "Procs"
                 THEN build_table(SceneLoad(procs_scene))
               ELSE UNCHANGED tableVars
            /\ ctl_hist' =
                 [ctl_hist EXCEPT
                    !.reloads = Min(@ + 1, 2),
                    !.lister = Some([scene |-> ctl_scene,
                                     args |-> ListerArgs(procs_scene)])]
       ELSE UNCHANGED <<tableVars, ctl_hist>>
  /\ ctl_reload' = FALSE
  /\ ctl_pc' = "draw"
  /\ UNCHANGED <<procs_scene, scene_result, ctl_scene, ctl_actions,
                 table_page_size, table_loads>>
  /\ CtlOther

\* app/mod.rs:79 with the draw of the active scene (procs/mod.rs:178-215)
CtlDraw ==
  /\ ctl_pc = "draw"
  /\ IF ctl_scene = "Procs"
       THEN \E height \in {0, MaxHeight} :
              table_page_size' = IF height > 0 THEN height - 1 ELSE 0
     ELSE UNCHANGED table_page_size
  /\ ctl_hist' = [CtlHistNew EXCEPT !.drawn = TRUE, !.key = ctl_hist.key]
  /\ scene_result' = None
  /\ ctl_pc' = "poll"
  /\ UNCHANGED <<procs_scene, ctl_scene, ctl_reload, ctl_actions, tableVars>>
  /\ CtlOther

\* the keys of the process scene that toggle a sort (procs_help/mod.rs:80-81)
SortKeys == {"n", "s"}

\* the list of an event goes to the controller; None asks for nothing
CtlTake(res, key) ==
  /\ scene_result' = res
  /\ IF res = None
       THEN UNCHANGED <<ctl_pc, ctl_actions, ctl_hist>>
     ELSE /\ ctl_actions' = res[1]
          /\ ctl_hist' =
               [ctl_hist EXCEPT
                  !.list = res[1],
                  !.key = CASE res[1] \in {<<>>, <<ActReload>>} -> @
                            [] key \in SortKeys -> key
                            [] OTHER -> "none"]
          /\ ctl_pc' = IF res[1] = <<>> THEN "top" ELSE "apply"

\* a key for the process scene (procs/mod.rs:218-249)
CtlKey ==
  /\ ctl_pc = "poll"
  /\ ctl_scene = "Procs"
  /\ table_op # "panic"
  /\ \E key \in SceneKeys :
       LET after == key_event(procs_scene, Len(table_items), table_selected,
                              table_page_size, key)
       IN /\ procs_scene' = after.scene
          /\ table_selected' = after.selected
          /\ CtlTake(after.result, key)
  /\ TableHistReset("key")
  /\ UNCHANGED <<procs, table_items, table_error, table_page_size, ctl_scene, ctl_reload,
                 table_loads>>
  /\ CtlOther

\* an event for another scene
CtlOtherScene ==
  /\ ctl_pc = "poll"
  /\ ctl_scene # "Procs"
  /\ \E list \in IF ctl_scene = "CGroupTree" THEN TreeSceneLists
                 ELSE HelpSceneLists : CtlTake(Some(list), "none")
  /\ UNCHANGED <<procs_scene, ctl_scene, ctl_reload, tableVars,
                 table_page_size>>
  /\ CtlOther

\* the refresh deadline of the scene passes with no input
CtlTimeout ==
  /\ ctl_pc = "poll"
  /\ ctl_scene \in TimedScenes
  /\ CtlTake(Some(<<ActReload>>), "none")
  /\ UNCHANGED <<procs_scene, ctl_scene, ctl_reload, tableVars,
                 table_page_size>>
  /\ CtlOther

\* the next action of the list is applied; after the last one the loop of
\* run goes on
CtlApply ==
  /\ ctl_pc = "apply"
  /\ table_op # "panic"
  /\ LET action == Head(ctl_actions) IN
     /\ procs_scene' = apply_to_scene(procs_scene, action)
     /\ ctl_scene' = IF action.type = "Scene" THEN action.scene ELSE ctl_scene
     /\ ctl_reload' = (ctl_reload \/ action.type # "Exit")
     /\ IF action.type = "CGroup"
          THEN /\ table_selected' = None
               /\ TableHistReset("key")
               /\ UNCHANGED <<procs, table_items, table_error>>
        ELSE UNCHANGED <<procs, table_items, table_error, table_selected, tableHist>>
     /\ ctl_pc' = CASE action.type = "Exit" -> "exit"
                    [] Len(ctl_actions) = 1 -> "top"
                    [] OTHER -> "apply"
  /\ ctl_actions' = Tail(ctl_actions)
  /\ UNCHANGED <<scene_result, ctl_hist, table_page_size, table_loads>>
  /\ CtlOther

\* ProcsScene::new with the controller not started
CtlInit ==
  /\ SceneIdle
  /\ ParseIdle
  /\ KeyedIdle
  /\ LoadIdle
  /\ TreeIdle
  /\ TableIdle
  /\ SortIdle
  /\ ProcsIdle
  /\ NavIdle
  /\ AppIdle
  /\ StaticIdle

NextCtl ==
  \/ CtlRun
  \/ CtlReload
  \/ CtlDraw
  \/ CtlKey
  \/ CtlOtherScene
  \/ CtlTimeout
  \/ CtlApply

SpecCtl == CtlInit /\ [][NextCtl]_vars

\* the last action of a type in a list, None without one
LastOf(list, type) ==
  LET at == {i \in 1..Len(list) : list[i].type = type}
  IN IF at = {} THEN None
     ELSE Some(list[CHOOSE i \in at : \A j \in at : j <= i])

HasReload(list) == \E i \in 1..Len(list) : list[i].type = "Reload"

\* the reload since the last draw was one, of the scene now active, with
\* the configuration the scene has now
ReloadedOnceAsConfigured ==
  /\ ctl_hist.reloads = 1
  /\ ctl_hist.lister = Some([scene |-> ctl_scene,
                             args |-> ListerArgs(procs_scene)])

\* C26: no reload and no draw starts while actions of the event remain; when
\* the list of the event held Reload, the draw that follows comes after
\* exactly one reload, made of the scene then active and with the mode the
\* list set; the first draw after start-up comes after a reload
C26_ActionsAsUnit ==
  /\ ctl_pc \in {"top", "draw"} => ctl_actions = <<>>
  /\ ctl_hist.reloads <= 1
  /\ ctl_pc = "draw" /\ HasReload(ctl_hist.list) =>
       /\ ReloadedOnceAsConfigured
       /\ LET mode == LastOf(ctl_hist.list, "ProcMode")
          IN mode # None =>
               /\ procs_scene.threads = mode[1].threads
               /\ procs_scene.include_children = mode[1].include_children
  /\ ctl_pc = "draw" /\ ~ctl_hist.drawn => ReloadedOnceAsConfigured

\* 't' in the process scene: the draw that follows was reloaded with threads
C26_Witness ==
  /\ ctl_pc = "draw"
  /\ ctl_scene = "Procs"
  /\ ctl_hist.list = <<ActProcMode(TRUE, FALSE), ActReload>>
  /\ ctl_hist.lister # None
  /\ ctl_hist.lister[1].args.threads

\* the step is a call of one of the five setters of the process scene
ChangedBySetter ==
  \/ \E path \in ScenePaths : procs_scene' = set_cgroup(procs_scene, path)
  \/ \E stat \in SceneStats : procs_scene' = set_stat(procs_scene, stat)
  \/ \E sort \in ProcSortOrders : procs_scene' = set_sort(procs_scene, sort)
  \/ \E sort \in CGroupSortOrders :
       procs_scene' = set_cgroup_sort(procs_scene, sort)
  \/ \E threads \in BOOLEAN, include_children \in BOOLEAN :
       procs_scene' = set_mode(procs_scene, threads, include_children)

\* C27: whatever the key, key_event leaves cgroup, stat, sort, proc_sort,
\* threads and include_children as they were (it returns a list and at most
\* moves the selection of the table, whose rows stay); the fields change only
\* in a call of set_cgroup, set_stat, set_sort, set_cgroup_sort or set_mode
C27_KeyEventFrame ==
  /\ [](\A key \in SceneKeys :
          key_event(procs_scene, Len(table_items), table_selected,
                    table_page_size, key).scene = procs_scene)
  /\ [][/\ scene_result' # None =>
             UNCHANGED <<procs_scene, procs, table_items, table_error,
                         table_page_size>>
        /\ procs_scene' # procs_scene => ChangedBySetter]_vars

\* 's' was pressed under another order: the list asks for the statistic
\* ascending and the scene still holds the old order
C27_Witness ==
  /\ scene_result = Some(<<ActProcSort("StatAsc"), ActReload>>)
  /\ procs_scene.sort = "CmdDsc"
  /\ procs_scene.proc_sort = "CmdDsc"

HelpKeys == {"q", "h", "Esc"}

\* the application state a help scene step could touch
HelpFrame ==
  <<app_scene, app_sort, app_tree_items, app_tree_state, help_scroll,
    next_refresh, app_pc, app_wait, app_reload, app_result>>

SortPress(key) ==
  /\ ctl_scene = "Procs"
  /\ ctl_pc = "poll"
  /\ ctl_pc' = "apply"
  /\ ctl_actions'[1].type = "ProcSort"
  /\ ctl_hist'.key = key

\* the order a sort key asks for first, and the one it asks for next
SortAsc(key) == IF key = "s" THEN "StatAsc" ELSE "CmdAsc"
SortDsc(key) == IF key = "s" THEN "StatDsc" ELSE "CmdDsc"

\* C29: of two presses in a row of 's' (of 'n'), under any statistic, the
\* second asks for the other direction than the first: descending after
\* ascending, ascending after descending
C29_SortKeysToggle ==
  [][\A key \in SortKeys :
       SortPress(key) /\ ctl_hist.key = key =>
         ctl_actions'[1] =
           ActProcSort(IF procs_scene.proc_sort = SortAsc(key)
                         THEN SortDsc(key) ELSE SortAsc(key))]_vars

\* the step reads the key in the tree
TreeRead(key) ==
  /\ app_scene = "CGroupTree"
  /\ app_pc = "wait"
  /\ queue # <<>>
  /\ Head(queue) = key
  /\ queue' = Tail(queue)

\* the order the key leads to
Toggled(asc, dsc) == IF app_sort = asc THEN dsc ELSE asc

\* C30: in the tree 'n' sets name ascending, or name descending when the
\* order was name ascending, and 's' does so for the statistic; the draw that
\* follows shows the cgroups loaded in the new order, and over that reload
\* the selection stays on the cgroup of the same path
C30_TreeSortKeys ==
  /\ [](app_pc = "draw" /\ app_event \in {"n", "s"} =>
          app_tree_items = app_env.loads[app_sort])
  /\ [][/\ TreeRead("n") => app_sort' = Toggled("NameAsc", "NameDsc")
        /\ TreeRead("s") => app_sort' = Toggled("SizeAsc", "SizeDsc")
        /\ app_pc = "top" /\ app_reload /\ app_event \in {"n", "s"} =>
             AppSelectedPath' = AppSelectedPath]_vars

(***************************************************************************)
(* C31.  Every <self> node of a loaded tree has a value above 0 that is    *)
(* the value of its parent less the sum of the parent's directories, the   *)
(* path of the parent with the segment "<self>" added, no error and no     *)
(* children; a node has at most one <self> child, and none without a      *)
(* child directory.                                                        *)
(***************************************************************************)
C31_SelfNodeExact ==
  \A n \in LoadedNodes :
    /\ Len(SelfChildren(n)) <= 1
    /\ RealChildren(n) = <<>> => SelfChildren(n) = <<>>
    /\ \A i \in 1..Len(SelfChildren(n)) :
         LET self == SelfChildren(n)[i] IN
         /\ self.stat > 0
         /\ self.stat = n.stat - SumStat(RealChildren(n))
         /\ self.path = Append(n.path, SelfName)
         /\ self.error = None
         /\ self.children = <<>>

\* one loaded node has a <self> child, another has directories whose sum is
\* above its own value and so no <self> child
C31_Witness ==
  /\ \E n \in LoadedNodes :
       SelfChildren(n) # <<>> /\ SumStat(RealChildren(n)) > 0
  /\ \E n \in LoadedNodes :
       /\ RealChildren(n) # <<>>
       /\ SumStat(RealChildren(n)) > n.stat
       /\ SelfChildren(n) = <<>>

(***************************************************************************)
(* C32.  For the statistic of every call of load_procs: its process stat   *)
(* type is None exactly when get_file_processor recognises no extractor in *)
(* its process-side definition, and the call does not panic.               *)
(***************************************************************************)
C32_CatalogConsistent ==
  ProcsCalled =>
    /\ (CalledStatType = "None") <=>
         (get_file_processor(STATS[lp_stat + 1].proc_def) = NoProcessor)
    /\ lp_loaded # Panic

\* the events of the tree that ask for a redraw or for nothing
QuietEvents == {"Down", "Up", "ScrollDown", "Resize", "x"}

\* the events of the tree that ask for a reload
ReloadEvents == {"n", "s"}

\* C33: the refresh deadline changes only in the reload of the loop, to the
\* time of the reload plus the refresh period; a navigation, resize or
\* ignored event leaves it as it is and asks for no reload, so that at a
\* passed deadline the poll still answers Reload; a sort key asks for the
\* reload that sets the deadline anew
C33_DeadlineByReloadOnly ==
  /\ [](app_pc = "top" /\ app_event \in QuietEvents => ~app_reload)
  /\ [](app_pc = "top" /\ app_event \in ReloadEvents => app_reload)
  /\ [][/\ next_refresh' # next_refresh => app_pc = "top" /\ app_reload
        /\ app_pc = "top" /\ app_reload /\ app_pc' = "draw" =>
             next_refresh' = now + RefreshSecs
        /\ TreeAt("poll") /\ now > next_refresh /\ app_pc' # "poll" =>
             app_pc' = "top" /\ app_reload']_vars

\* a navigation event was handled and drawn, the deadline of the first
\* reload still stands and has passed
C33_Witness ==
  /\ app_scene = "CGroupTree"
  /\ app_pc = "poll"
  /\ app_event = "Down"
  /\ next_refresh = RefreshSecs
  /\ now > next_refresh

(***************************************************************************)
(* The keys '[' and ']' of the process scene under every statistic of the  *)
(* catalog and every order.                                                *)
(***************************************************************************)
StatKeys == {"[", "]"}

\* the process scene after set_stat and set_sort
StatKeysInit ==
  /\ \E stat \in 0..(NumStats - 1), sort \in ProcSortOrders :
       procs_scene = set_sort(set_stat(ProcsScene_new, stat), sort)
  /\ scene_result = None
  /\ ctl_scene = "CGroupTree"
  /\ ctl_pc = "idle"
  /\ ctl_reload = FALSE
  /\ ctl_actions = <<>>
  /\ ctl_hist = CtlHistNew
  /\ ParseIdle
  /\ KeyedIdle
  /\ LoadIdle
  /\ TreeIdle
  /\ TableIdle
  /\ SortIdle
  /\ ProcsIdle
  /\ NavIdle
  /\ AppIdle
  /\ StaticIdle

\* procs/mod.rs:235-236: key_event with '[' or ']'
StatKey ==
  \E key \in StatKeys :
    LET after == key_event(procs_scene, Len(table_items), table_selected,
                           table_page_size, key)
    IN /\ procs_scene' = after.scene
       /\ table_selected' = after.selected
       /\ scene_result' = after.result
       /\ key_pressed' = <<"procs", key>>
       /\ UNCHANGED <<parseVars, keyedVars, loadVars, treeVars, sortVars,
                      procVars, procs, table_items, table_error, tableHist,
                      table_loads,
                      key_result, table_page_size>>
       /\ SceneOther

NextStatKeys == StatKey

SpecStatKeys == StatKeysInit /\ [][NextStatKeys]_vars

\* the steps from one index of the catalog to another in the direction of
\* the key, a whole turn when they are the same
StatSteps(from, to, up) ==
  LET ahead == IF up THEN (to - from + NumStats) % NumStats
               ELSE (from - to + NumStats) % NumStats
  IN IF ahead = 0 THEN NumStats ELSE ahead

WithProcStat == {j \in 0..(NumStats - 1) : STATS[j + 1].proc_stype # "None"}

\* C34: '[' and ']' return [Stat(k), Reload] under every statistic, k being
\* the index with a process-level analog that is the fewest steps before
\* (after) the current one, going round at the ends of the catalog
C34_NextStatNearest ==
  key_pressed[1] = "procs" =>
    \E k \in WithProcStat :
      /\ scene_result = Some(<<ActStat(k), ActReload>>)
      /\ \A j \in WithProcStat :
           StatSteps(procs_scene.stat, k, key_pressed[2] = "]")
             <= StatSteps(procs_scene.stat, j, key_pressed[2] = "]")

\* '[' under the first statistic goes round to the end of the catalog, over
\* statistics without an analog
C34_Witness ==
  /\ key_pressed = <<"procs", "[">>
  /\ procs_scene.stat = 0
  /\ scene_result # None
  /\ scene_result[1][1].stat \in 1..(NumStats - 2)

\* the identifier is empty or names a node of the cgroups held now
ValidId(id) == id = <<>> \/ id \in IdsUnder(cgroups, <<>>)

(***************************************************************************)
(* C35.  After every build_tree and every key of the tree view the         *)
(* selected identifier and every opened identifier are empty or name a     *)
(* node of the current cgroup list, and cgroup_from_selected resolves them *)
(* without leaving the bounds of a level.                                  *)
(***************************************************************************)
C35_IdentifiersInTree ==
  /\ ValidId(tree_selected)
  /\ \A id \in tree_opened : ValidId(id)
  /\ \A id \in tree_opened \cup {tree_selected} :
       cgroup_from_selected(cgroups, id) # Panic

\* a build has replaced a tree in which a nested node was selected and open
\* by one that has no node at that identifier
C35_Witness ==
  /\ tree_op = "build_tree"
  /\ Len(old_selected_id) = 2
  /\ old_selected_id \in old_opened_ids
  /\ ~ValidId(old_selected_id)
  /\ cgroups # <<>>

(***************************************************************************)
(* C36.  After every build_table, reset and navigation of the process      *)
(* table the rows and the processes are equally many and the selected row, *)
(* when there is one, is an index of the process list.                     *)
(***************************************************************************)
C36_TableSelectionInRange ==
  /\ Len(table_items) = Len(procs)
  /\ table_selected # None => table_selected[1] \in 0..(Len(procs) - 1)

\* a load has failed with a row selected: no process, no row and no
\* selection are left
C36_Witness ==
  /\ table_op = "build_table"
  /\ table_error # None
  /\ old_selected_row # None
  /\ procs = <<>>
  /\ table_selected = None

\* the step is a call of set_cgroup with the path
SetCGroupCalled(path) == key_pressed' = <<"set_cgroup", path>>

\* C37: set_cgroup(path) stores the path without its last segment when that
\* is "<self>" and the path itself otherwise, leaves the other fields, and
\* clears the selection of the table; the reload that follows selects no row
C37_SetCGroupTarget ==
  [][/\ \A path \in ScenePaths :
          SetCGroupCalled(path) =>
            /\ procs_scene' =
                 [procs_scene EXCEPT !.cgroup =
                    IF path # <<>> /\ path[Len(path)] = SelfName
                      THEN SubSeq(path, 1, Len(path) - 1)
                    ELSE path]
            /\ table_selected' = None
     /\ key_pressed[1] = "set_cgroup" /\ table_op' = "build_table" =>
          table_selected' = None]_vars

\* with a row selected in the list of the root, set_cgroup was called for the
\* <self> node of the root: the target is the root, whose list still holds
\* the process of that row, and no row is selected
C37_Witness ==
  /\ key_pressed = <<"set_cgroup", <<SelfName>>>>
  /\ procs_scene.cgroup = <<>>
  /\ old_selected_row # None
  /\ procs # <<>>
  /\ table_selected = None

(***************************************************************************)
(* The stat chooser (app/scenes/stat_choose/mod.rs).  A PollResult of this *)
(* version of the application is None, Redraw, Scene(scene) or             *)
(* SceneParms(scene, parms).                                               *)
(***************************************************************************)
PollNone == [type |-> "None"]
PollRedraw == [type |-> "Redraw"]
PollScene(scene) == [type |-> "Scene", scene |-> scene]
PollSceneParms(scene, parms) ==
  [type |-> "SceneParms", scene |-> scene, parms |-> parms]
ParmStat(stat) == [type |-> "Stat", stat |-> stat]

ChooseEvents ==
  {"q", "h", "Esc", "Down", "Up", "Enter", " ", "ScrollDown", "ScrollUp",
   "Resize", "x"}

\* stat_choose/mod.rs:30-42 going round from the first entry to the last
stat_choose_up_wrapping(items, sel) ==
  IF sel # None /\ sel[1] > 0
    THEN [selected |-> Some(sel[1] - 1), result |-> PollRedraw]
  ELSE [selected |-> Some(Len(items) - 1), result |-> PollRedraw]

\* stat_choose/mod.rs:30-42 (up): the selection and the PollResult
stat_choose_up(items, sel) ==
  IF sel # None
    THEN IF sel[1] > 0
           THEN [selected |-> Some(sel[1] - 1), result |-> PollRedraw]
         ELSE [selected |-> sel, result |-> PollNone]
  ELSE [selected |-> Some(Len(items) - 1), result |-> PollRedraw]

\* stat_choose/mod.rs:44-56 (down): the selection and the PollResult
stat_choose_down(items, sel) ==
  IF sel # None
    THEN IF sel[1] < Len(items) - 1
           THEN [selected |-> Some(sel[1] + 1), result |-> PollRedraw]
         ELSE [selected |-> sel, result |-> PollNone]
  ELSE [selected |-> Some(0), result |-> PollRedraw]

\* stat_choose/mod.rs:93-131: the selection after one event read by poll,
\* and the PollResult
stat_choose_event(items, sel, event) ==
  LET same(res) == [selected |-> sel, result |-> res]
  IN CASE event \in {"q", "h", "Esc"} -> same(PollScene("CGroupTree"))
       [] event \in {"Down", "ScrollDown"} -> stat_choose_down(items, sel)
       [] event \in {"Up", "ScrollUp"} -> stat_choose_up(items, sel)
       [] event \in {"Enter", " "} ->
            IF sel # None
              THEN same(PollSceneParms("CGroupTree", <<ParmStat(sel[1])>>))
            ELSE same(PollNone)
       [] event = "Resize" -> same(PollRedraw)
       [] OTHER -> same(PollNone)

ChooseOther ==
  UNCHANGED <<parseVars, keyedVars, loadVars, treeVars, tableVars, sortVars,
              procVars, table_page_size, procs_scene, scene_result,
              ctl_scene, ctl_reload, ctl_actions, ctl_hist, appVars,
              procsHelpVars>>

\* stat_choose/mod.rs:64-84 (draw): the items are built from the catalog,
\* the selection is left as it is
ChooseDraw ==
  /\ ctl_scene = "StatChoose"
  /\ ctl_pc = "draw"
  /\ choose_items' = [i \in 1..NumStats |-> i - 1]
  /\ ctl_pc' = "poll"
  /\ NoKey
  /\ UNCHANGED <<choose_selected, choose_result>>
  /\ ChooseOther

\* stat_choose/mod.rs:89-134 (poll): one event is read and handled; the loop
\* goes on after a result of None and ends with any other
ChooseEvent ==
  /\ ctl_scene = "StatChoose"
  /\ ctl_pc = "poll"
  /\ \E event \in ChooseEvents :
       LET after == stat_choose_event(choose_items, choose_selected, event)
       IN /\ choose_selected' = after.selected
          /\ choose_result' = after.result
          /\ key_pressed' = <<"choose", event>>
          /\ ctl_pc' = CASE after.result = PollNone -> "poll"
                         [] after.result = PollRedraw -> "draw"
                         [] OTHER -> "apply"
  /\ key_result' = None
  /\ UNCHANGED choose_items
  /\ ChooseOther

\* the chooser as constructed (stat_choose/mod.rs:23-28) and made the active
\* scene: it is drawn before it is polled
ChooseInit ==
  /\ ParseIdle
  /\ KeyedIdle
  /\ LoadIdle
  /\ TreeIdle
  /\ TableIdle
  /\ SortIdle
  /\ ProcsIdle
  /\ NavIdle
  /\ AppIdle
  /\ procs_scene = ProcsScene_new
  /\ scene_result = None
  /\ ctl_scene = "StatChoose"
  /\ ctl_pc = "draw"
  /\ ctl_reload = FALSE
  /\ ctl_actions = <<>>
  /\ ctl_hist = CtlHistNew
  /\ choose_items = <<>>
  /\ choose_selected = None
  /\ choose_result = PollNone
  /\ ProcsHelpIdle

NextChoose ==
  \/ ChooseDraw
  \/ ChooseEvent

SpecChoose == ChooseInit /\ [][NextChoose]_vars

ChooseKey(event) == key_pressed' = <<"choose", event>>

\* C39: the selection of the chooser, when present, is an index of the
\* catalog; Down at the last entry and Up at the first change nothing and
\* return None; without a selection Down selects the first entry and Up the
\* last; Enter and Space return None and stay in the chooser without a
\* selection, and with the selection i return the tree scene together with
\* the statistic i
C39_ChooserSelection ==
  /\ [](choose_selected # None => choose_selected[1] \in 0..(NumStats - 1))
  /\ [][/\ (ChooseKey("Down") \/ ChooseKey("ScrollDown"))
             /\ choose_selected = Some(NumStats - 1)
           => /\ choose_selected' = choose_selected
              /\ choose_result' = PollNone
              /\ ctl_pc' = "poll"
        /\ (ChooseKey("Up") \/ ChooseKey("ScrollUp"))
             /\ choose_selected = Some(0)
           => /\ choose_selected' = choose_selected
              /\ choose_result' = PollNone
              /\ ctl_pc' = "poll"
        /\ (ChooseKey("Down") \/ ChooseKey("ScrollDown"))
             /\ choose_selected = None
           => choose_selected' = Some(0)
        /\ (ChooseKey("Up") \/ ChooseKey("ScrollUp"))
             /\ choose_selected = None
           => choose_selected' = Some(NumStats - 1)
        /\ (ChooseKey("Enter") \/ ChooseKey(" ")) /\ choose_selected = None
           => /\ choose_result' = PollNone
              /\ ctl_pc' = "poll"
              /\ UNCHANGED <<choose_selected, ctl_scene>>
        /\ (ChooseKey("Enter") \/ ChooseKey(" ")) /\ choose_selected # None
           => /\ choose_result' =
                   PollSceneParms("CGroupTree",
                                  <<ParmStat(choose_selected[1])>>)
              /\ UNCHANGED choose_selected]_vars

\* Down was pressed at the last entry
C39_Witness ==
  /\ key_pressed = <<"choose", "Down">>
  /\ choose_selected = Some(NumStats - 1)
  /\ choose_result = PollNone

(***************************************************************************)
(* The five scenes and their keys.  The tree and its help are those of     *)
(* App (app/mod.rs), whose scene field is the active scene; the chooser,   *)
(* the processes and their help return a request that the controller       *)
(* applies.  The loads and the draws of the timed scenes are those of      *)
(* SpecApp and SpecCtl and change no scene.                                *)
(***************************************************************************)
U16Max == 65535

NavTreeEvents == {"q", "Esc", "h", "Down", "Resize", "x"}
NavProcsKeys == {"q", "Esc", "p", "h", "r", "Down", "x"}
\* the keys of the helps that leave them, and two that do not; the
\* scrolling of a help is exercised by SpecApp
NavHelpKeys == {"q", "h", "Esc", "Resize", "x"}

\* the scenes the tree scene gives way to besides its help
EnteredScenes == {"StatChoose", "Procs"}

\* procs_help/mod.rs:102-111 with q leaving the program
procs_help_key_event_q_exits(scroll, key) ==
  [scroll |-> scroll,
   result |-> IF key = "q" THEN [type |-> "Exit"]
              ELSE IF key \in {"h", "Esc"} THEN PollScene("CGroupTree")
              ELSE PollNone]

\* procs_help/mod.rs:25-42 and 102-111 (key_event): the scroll position
\* after the key, and the PollResult
procs_help_key_event(scroll, key) ==
  CASE key \in {"q", "h", "Esc"} ->
         [scroll |-> scroll, result |-> PollScene("CGroupTree")]
    [] key = "Down" ->
         IF scroll < U16Max
           THEN [scroll |-> scroll + 1, result |-> PollRedraw]
         ELSE [scroll |-> scroll, result |-> PollNone]
    [] key = "Up" ->
         IF scroll > 0
           THEN [scroll |-> scroll - 1, result |-> PollRedraw]
         ELSE [scroll |-> scroll, result |-> PollNone]
    [] OTHER -> [scroll |-> scroll, result |-> PollNone]

\* the actions of a list applied in order to the process scene
RECURSIVE apply_all(_, _)
apply_all(scene, list) ==
  IF list = <<>> THEN scene
  ELSE apply_all(apply_to_scene(scene, Head(list)), Tail(list))

\* the scene the last Scene action of a list names, the active one
\* without any
scene_after(scene, list) ==
  LET changes == SelectSeq(list, LAMBDA a : a.type = "Scene")
  IN IF changes = <<>> THEN scene ELSE changes[Len(changes)].scene

\* the statistics of the parameters of a scene change, as actions
parm_actions(parms) == [i \in 1..Len(parms) |-> ActStat(parms[i].stat)]

\* where the loop is once a scene is active: the chooser builds its items
\* when drawn
NavPc(scene) == IF scene = "StatChoose" THEN "draw" ELSE "poll"

NavOther ==
  UNCHANGED <<parseVars, keyedVars, loadVars, treeVars, sortVars, procVars,
              table_page_size, table_loads, procs, table_items, table_error,
              tableHist, scene_result, ctl_reload, ctl_hist, app_tree_items,
              next_refresh, app_pc, app_wait, app_reload, now, queue, app_env,
              app_event>>

\* app/mod.rs:227-317: one event read in the cgroup tree
NavTreeEvent ==
  /\ ctl_scene = "CGroupTree"
  /\ ctl_pc = "poll"
  /\ \E event \in NavTreeEvents :
       LET after == tree_event(event)
       IN /\ app_scene' = after.scene
          /\ ctl_scene' = after.scene
          /\ app_sort' = after.sort
          /\ app_tree_state' = after.state
          /\ app_result' = after.result
          /\ ctl_pc' = IF after.result = "Exit" THEN "exit" ELSE "poll"
          /\ key_pressed' = <<"tree", event>>
  /\ key_result' = None
  /\ UNCHANGED <<help_scroll, procs_scene, table_selected, ctl_actions,
                 staticVars>>
  /\ NavOther

\* the tree scene gives way to the chooser or to the processes
NavEnter ==
  /\ ctl_scene = "CGroupTree"
  /\ ctl_pc = "poll"
  /\ \E scene \in EnteredScenes :
       /\ ctl_scene' = scene
       /\ ctl_pc' = NavPc(scene)
  /\ key_pressed' = <<"tree", "enter">>
  /\ key_result' = None
  /\ UNCHANGED <<app_scene, app_sort, app_tree_state, app_result, help_scroll,
                 procs_scene, table_selected, ctl_actions, staticVars>>
  /\ NavOther

\* app/mod.rs:319-356: one event read in the help
NavHelpEvent ==
  /\ ctl_scene = "Help"
  /\ ctl_pc = "poll"
  /\ \E event \in NavHelpKeys :
       LET after == help_event(event)
       IN /\ app_scene' = after.scene
          /\ ctl_scene' = after.scene
          /\ help_scroll' = after.scroll
          /\ app_result' = after.result
          /\ key_pressed' = <<"help", event>>
  /\ key_result' = None
  /\ UNCHANGED <<ctl_pc, app_sort, app_tree_state, procs_scene,
                 table_selected, ctl_actions, staticVars>>
  /\ NavOther

\* procs/mod.rs:218-249: a key for the process scene
NavProcsKey ==
  /\ ctl_scene = "Procs"
  /\ ctl_pc = "poll"
  /\ \E key \in NavProcsKeys :
       LET after == key_event(procs_scene, Len(table_items), table_selected,
                              table_page_size, key)
       IN /\ procs_scene' = after.scene
          /\ table_selected' = after.selected
          /\ ctl_actions' = IF after.result = None THEN <<>>
                            ELSE after.result[1]
          /\ ctl_pc' = IF after.result \in {None, Some(<<>>)} THEN "poll"
                       ELSE "apply"
          /\ key_pressed' = <<"procs", key>>
  /\ key_result' = None
  /\ UNCHANGED <<ctl_scene, app_scene, app_sort, app_tree_state, app_result,
                 help_scroll, staticVars>>
  /\ NavOther

\* procs_help/mod.rs:102-111: a key for the help of the processes
NavProcsHelpKey ==
  /\ ctl_scene = "ProcsHelp"
  /\ ctl_pc = "poll"
  /\ \E key \in NavHelpKeys :
       LET after == procs_help_key_event(procs_help_scroll, key)
       IN /\ procs_help_scroll' = after.scroll
          /\ procs_help_result' = after.result
          /\ ctl_pc' = IF after.result \in {PollNone, PollRedraw} THEN "poll"
                       ELSE "apply"
          /\ key_pressed' = <<"procs_help", key>>
  /\ key_result' = None
  /\ UNCHANGED <<ctl_scene, app_scene, app_sort, app_tree_state, app_result,
                 help_scroll, procs_scene, table_selected, ctl_actions,
                 chooseVars>>
  /\ NavOther

\* the request of the active scene is applied: the statistic and the process
\* scene's settings are set, the scene is changed, Exit ends the run
NavApply ==
  /\ ctl_pc = "apply"
  /\ LET request ==
           CASE ctl_scene = "StatChoose" -> choose_result
             [] ctl_scene = "ProcsHelp" -> procs_help_result
             [] OTHER -> [type |-> "Actions"]
         list ==
           CASE request.type = "Actions" -> ctl_actions
             [] request.type = "Scene" -> <<ActScene(request.scene)>>
             [] request.type = "SceneParms" ->
                  parm_actions(request.parms) \o <<ActScene(request.scene)>>
             [] request.type = "Exit" -> <<ActExit>>
             [] OTHER -> <<>>
         exits == \E i \in 1..Len(list) : list[i].type = "Exit"
     IN /\ procs_scene' = apply_all(procs_scene, list)
        /\ ctl_scene' = scene_after(ctl_scene, list)
        /\ ctl_pc' = IF exits THEN "exit" ELSE NavPc(scene_after(ctl_scene, list))
  /\ ctl_actions' = <<>>
  /\ UNCHANGED <<key_pressed, key_result, app_scene, app_sort, app_tree_state,
                 app_result, help_scroll, table_selected, staticVars>>
  /\ NavOther

\* the tree scene active and polled, every scene as constructed
NavInit ==
  /\ ParseIdle
  /\ KeyedIdle
  /\ LoadIdle
  /\ TreeIdle
  /\ TableIdle
  /\ SortIdle
  /\ ProcsIdle
  /\ NavIdle
  /\ AppIdle
  /\ StaticIdle
  /\ procs_scene = ProcsScene_new
  /\ scene_result = None
  /\ ctl_scene = "CGroupTree"
  /\ ctl_pc = "poll"
  /\ ctl_reload = FALSE
  /\ ctl_actions = <<>>
  /\ ctl_hist = CtlHistNew

NextNav ==
  \/ NavTreeEvent
  \/ NavEnter
  \/ NavHelpEvent
  \/ NavProcsKey
  \/ NavProcsHelpKey
  \/ ChooseDraw
  \/ ChooseEvent
  \/ NavApply

SpecNav == NavInit /\ [][NextNav]_vars

QuitKeys == {"q", "Esc"}

\* q or Esc is pressed in the scene that tags its keys with name
QuitIn(scene, name) ==
  /\ ctl_pc = "poll"
  /\ ctl_scene = scene
  /\ key_pressed' \in {<<name, key>> : key \in QuitKeys}

\* some scene handles the key now
Handles(key) == ENABLED (NextNav /\ key_pressed'[2] = key)

\* C38: the run ends only by q or Esc pressed in the tree scene, which always
\* ends it; q or Esc in the help, the chooser, the process table or the help
\* of the processes makes the tree scene the active one without ending the
\* run; every polled scene handles q and Esc and every request is applied,
\* so the run can be ended with at most two key presses from every scene
C38_QuitFromEveryScene ==
  /\ [](ctl_pc = "poll" => \A key \in QuitKeys : Handles(key))
  /\ [](ctl_pc \in {"draw", "apply"} => ENABLED NextNav)
  /\ [][/\ ctl_pc # "exit" /\ ctl_pc' = "exit" => QuitIn("CGroupTree", "tree")
        /\ QuitIn("CGroupTree", "tree") => ctl_pc' = "exit"
        /\ QuitIn("Help", "help")
             => ctl_scene' = "CGroupTree" /\ ctl_pc' = "poll"
        /\ QuitIn("StatChoose", "choose") \/ QuitIn("Procs", "procs")
             \/ QuitIn("ProcsHelp", "procs_help")
             => ctl_pc' = "apply" /\ ctl_scene' = ctl_scene
        /\ ctl_pc = "apply" /\ key_pressed[2] \in QuitKeys
             /\ ctl_pc' # "apply"
             => ctl_scene' = "CGroupTree" /\ ctl_pc' = "poll"]_vars

\* Esc was pressed in the help of the processes and the tree scene is polled
C38_Witness ==
  /\ key_pressed = <<"procs_help", "Esc">>
  /\ ctl_scene = "CGroupTree"
  /\ ctl_pc = "poll"

=========================================================================
